---- MODULE Spec2Model ----
(***************************************************************************)
(* Musical Keys: the polyphonic audio engine (js/audio-engine.js, the      *)
(* second AudioEngine class) and the recording / playback system           *)
(* (js/recording.js), together with the host's timer queue.                *)
(*                                                                         *)
(* Time is counted in ticks of TickMs milliseconds.  A timer carries the   *)
(* number of ticks that remain until it is due; time advances only when no *)
(* timer is due, so callbacks run at their due tick.  The timer queue is a *)
(* bag: callbacks set by the same code with the same captured values are   *)
(* interchangeable.  Only the timers whose identity the program keeps (the *)
(* event timers in playbackTimeouts) carry one.  Velocities are kept       *)
(* in tenths (5 stands for 0.5).  Timestamps are milliseconds relative to  *)
(* the start of a recording and are never negative.                        *)
(***************************************************************************)
EXTENDS Integers, Sequences, FiniteSets, Bags, TLC

\* ---------------------------------------------------------------- bounds
TickMs == 100
MaxTimers == 2
MaxEvents == 2
MaxClock == 2

\* ------------------------------------------------------ program constants
CleanupDelay == 200
DisconnectDelay == 150
GraceDelay == 500
DefaultVelocity == 5
ReferenceHz == 440
ReferenceNote == 69
\* the envelope of a voice, times in ms after the call that schedules them
AttackMs == 10
DecayEndMs == 300
\* the sustain level, in percent of the velocity
SustainPercent == 70
\* the release of stopNote: end of the ramp and stop of the oscillator
ReleaseRampMs == 100
OscStopDelay == 150
\* the fade of stopAllNotes: end of the ramp and stop of the oscillator
FadeRampMs == 50
FadeStopDelay == 100
\* the floor of the release ramp, 0.001, in thousandths of full gain
FloorGain == 1

Notes == {60, 69}

\* the timestamp of a late event: later than the grace delay after time 0
LateTimestamp == GraceDelay + TickMs

\* the note events a recording document may hold: the note-on and the
\* note-off of one key, the note-on with a velocity other than the default
Events ==
    { [type |-> "noteOn", note |-> 60, velocity |-> 8, timestamp |-> 0],
      [type |-> "noteOff", note |-> 60, velocity |-> 0, timestamp |-> LateTimestamp] }

\* event sequences in any order, sorted by timestamp or not
EventSeqs == UNION {[1..n -> Events] : n \in 0..MaxEvents}

\* the keyboard keys followed, two keys of one note, and a key that has no
\* note
Keys == {"q", "a"}
keyToMidi == [key \in Keys |-> 60]
UnmappedKey == "1"

\* the .key elements of the page in document order, with their data-note
KeyElements == <<"keyQ", "keyY", "keyA">>
dataNote == [k \in {"keyQ", "keyY", "keyA"} |-> IF k = "keyY" THEN 69 ELSE 60]

\* the elements that carry a note
ElementsOf(midi) == {KeyElements[i] : i \in {j \in DOMAIN KeyElements : dataNote[KeyElements[j]] = midi}}

\* the JSON value null as an entry of the events array, in the shape of the
\* other entries; its fields do not exist and are never read
NullEntry == [type |-> "null", note |-> 0, velocity |-> 0, timestamp |-> 0]

\* entries of a hand-written document: a note-on, an event of a kind the
\* replay does not know, and null
ReplayEntries ==
    { [type |-> "noteOn", note |-> 60, velocity |-> 8, timestamp |-> 0],
      [type |-> "sustain", note |-> 60, velocity |-> 8, timestamp |-> TickMs],
      NullEntry }

\* parsed documents: events is an array, is missing, or is not an array
Docs == [kind : {"array"}, events : EventSeqs]
        \cup [kind : {"missing", "notArray"}, events : {<<>>}]

VARIABLES
    isInitialized,      \* AudioEngine.isInitialized
    activeNotes,        \* AudioEngine.activeNotes : Map midi -> voice
    activeNoteCount,    \* AudioEngine.activeNoteCount
    speakerActive,      \* class 'active' of #speakerIcon
    isRecording,        \* RecordingSystem.isRecording
    isPlaying,          \* RecordingSystem.isPlaying
    recordedEvents,     \* RecordingSystem.recordedEvents
    playbackTimeouts,   \* RecordingSystem.playbackTimeouts
    keyActive,          \* the .key elements that carry class 'active'
    pressedKeys,        \* InputHandler.pressedKeys
    pointerStarted,     \* the elements whose pointer-down started a voice and
                        \* that have seen no pointer-up since
    timers,             \* the host's pending setTimeout callbacks
    run,                \* the playback run in progress (history)
    lastOp,             \* the operation that produced this state (history)
    now,                \* performance.now(), as read while recording
    recordingStartTime, \* RecordingSystem.recordingStartTime
    returned,           \* the array the last stopRecording() returned
    saved,              \* the file the last saveRecording() downloaded
    ui                  \* the recording controls of the page

vars == <<isInitialized, activeNotes, activeNoteCount, speakerActive,
          isRecording, isPlaying, recordedEvents, playbackTimeouts,
          keyActive, pressedKeys, pointerStarted, timers, run, lastOp,
          now, recordingStartTime, returned, saved, ui>>

\* ------------------------------------------------------------- helpers
Min(S) == CHOOSE x \in S : \A y \in S : x <= y
Max(S) == CHOOSE x \in S : \A y \in S : x >= y

\* setTimeout(cb, ms): the delay in ticks
Ticks(ms) == ms \div TickMs

NoEvent == [type |-> "none", note |-> 0, velocity |-> 0, timestamp |-> 0]
NoRun == [lastTimestamp |-> 0, elapsed |-> 0]

\* a fresh identity: the least positive integer not in use
Fresh(used) == Min((1..(Cardinality(used) + 1)) \ used)

\* the distinct pending callbacks
Pending(tm) == BagToSet(tm)

RECURSIVE SumCopies(_, _)
SumCopies(tm, S) ==
    IF S = {} THEN 0
    ELSE LET t == CHOOSE x \in S : TRUE IN tm[t] + SumCopies(tm, S \ {t})

\* the bag of F(t) for the timers t of tm
BagMap(F(_), tm) ==
    [x \in {F(t) : t \in DOMAIN tm} |-> SumCopies(tm, {t \in DOMAIN tm : F(t) = x})]

\* the timers of tm that satisfy P
BagFilter(P(_), tm) == [t \in {x \in DOMAIN tm : P(x)} |-> tm[t]]

\* identities of the timers that have one
TimerIds(tm) == {t.id : t \in Pending(tm)} \ {0}

\* oscillator objects still referenced by the voice map or by a cleanup closure
OscInUse(an, tm) ==
    {an[m].osc : m \in DOMAIN an} \cup ({t.osc : t \in Pending(tm)} \ {0})

\* a timer whose callback holds no audio node
NoNode == [gain |-> <<>>, oscStop |-> 0]

NewTimer(id, kind, ms, note, osc, index, event) ==
    [id |-> id, kind |-> kind, remaining |-> Ticks(ms), note |-> note,
     osc |-> osc, index |-> index, event |-> event, stale |-> "no",
     node |-> NoNode]

\* Map.delete(midi)
MapDelete(an, midi) == [m \in (DOMAIN an) \ {midi} |-> an[m]]

\* Map.set(midi, v)
MapSet(an, midi, v) ==
    [m \in (DOMAIN an) \cup {midi} |-> IF m = midi THEN v ELSE an[m]]

EmptyMap == [m \in {} |-> 0]

\* the engine's mutable state, passed through the engine operations
Engine == [activeNotes |-> activeNotes, activeNoteCount |-> activeNoteCount,
           speakerActive |-> speakerActive, timers |-> timers]

\* updateSpeakerIcon()
updateSpeakerIcon(E) == [E EXCEPT !.speakerActive = (E.activeNoteCount > 0)]

\* ------------------------------------------------------ the audio engine
\* history: the callbacks that were pending when a playback stop
\* ("playback") or an emergency stop of the host ("engine") was requested
MarkStale(tm, by) ==
    LET Stale(t) == [t EXCEPT !.stale = IF @ = "playback" THEN @ ELSE by]
    IN  BagMap(Stale, tm)

\* midiToFrequency with middle C as the reference note
midiToFrequency_FromMiddleC(midi) == [hz |-> ReferenceHz, twelfths |-> midi - 60]

\* AudioEngine.midiToFrequency(midi): 440 * Math.pow(2, (midi - 69) / 12),
\* held as the exact value hz * 2^(twelfths/12); the rounding of the
\* floating-point power is far below a thousandth of a hertz
midiToFrequency(midi) == [hz |-> ReferenceHz, twelfths |-> midi - ReferenceNote]

\* natural numbers of any size: limbs of three decimal digits, the least
\* significant first
RECURSIVE Big(_)
Big(n) == IF n = 0 THEN <<>> ELSE <<n % 1000>> \o Big(n \div 1000)

\* a * m + carry, for a positive m below a million
RECURSIVE BigTimes(_, _, _)
BigTimes(a, m, carry) ==
    IF a = <<>> THEN Big(carry)
    ELSE LET v == a[1] * m + carry
         IN  <<v % 1000>> \o BigTimes(Tail(a), m, v \div 1000)

\* a * m^k
RECURSIVE BigPower(_, _, _)
BigPower(a, m, k) == IF k = 0 THEN a ELSE BigPower(BigTimes(a, m, 0), m, k - 1)

RECURSIVE BigLeq(_, _)
BigLeq(a, b) ==
    IF Len(a) # Len(b) THEN Len(a) < Len(b)
    ELSE IF a = <<>> THEN TRUE
    ELSE IF a[Len(a)] # b[Len(b)] THEN a[Len(a)] < b[Len(b)]
    ELSE BigLeq(SubSeq(a, 1, Len(a) - 1), SubSeq(b, 1, Len(b) - 1))

\* x^12 * 2^k
TwelfthPower(x, k) == BigPower(BigPower(Big(1), x, 12), 2, k)

\* the frequency f is at least, at most, milli thousandths of a hertz:
\* milli^12 against (1000 * hz)^12 * 2^twelfths
AtLeast(f, milli) ==
    BigLeq(TwelfthPower(milli, Max({0 - f.twelfths, 0})),
           TwelfthPower(1000 * f.hz, Max({f.twelfths, 0})))

AtMost(f, milli) ==
    BigLeq(TwelfthPower(1000 * f.hz, Max({f.twelfths, 0})),
           TwelfthPower(milli, Max({0 - f.twelfths, 0})))

\* a gain level in thousandths of full gain (velocities are tenths)
Level(thousandths) == [read |-> FALSE, thousandths |-> thousandths]

\* the level noteGain.gain.value has at the instant of the call
currentGain == [read |-> TRUE, thousandths |-> 0]

\* one scheduled change of noteGain.gain; at = ms after the call's `now`
Automation(call, value, at) == [call |-> call, value |-> value, at |-> at]

\* the envelope with the decay timed from the end of the attack
envelope_DecayAfterAttack(velocity) ==
    << Automation("setValueAtTime", Level(0), 0),
       Automation("linearRampToValueAtTime", Level(velocity * 100), AttackMs),
       Automation("exponentialRampToValueAtTime", Level(velocity * SustainPercent),
                  AttackMs + DecayEndMs) >>

\* the changes playNote schedules on the gain of a new voice
envelope(velocity) ==
    << Automation("setValueAtTime", Level(0), 0),
       Automation("linearRampToValueAtTime", Level(velocity * 100), AttackMs),
       Automation("exponentialRampToValueAtTime", Level(velocity * SustainPercent),
                  DecayEndMs) >>

\* cancelScheduledValues that removes nothing
cancelScheduledValues_None(gain) == gain

\* gain.cancelScheduledValues(now): every change scheduled at or after now
\* is removed; the schedule is kept relative to the latest call, so what
\* lies before now is not kept
cancelScheduledValues(gain) == << >>

\* the release both stop operations schedule: cancel, hold the level read
\* from the gain at this instant, ramp to the floor within rampMs
releaseSchedule(gain, rampMs) ==
    cancelScheduledValues(gain)
      \o << Automation("setValueAtTime", currentGain, 0),
            Automation("exponentialRampToValueAtTime", Level(FloorGain), rampMs) >>

\* the entry playNote stores: the oscillator started at the frequency of the
\* note, the peak velocity, the phase of the envelope, the changes scheduled
\* on the gain and the stop scheduled on the oscillator (0 = none)
Voice(osc, velocity, frequency) ==
    [osc |-> osc, velocity |-> velocity, frequency |-> frequency,
     env |-> "attackDecay", gain |-> envelope(velocity), oscStop |-> 0]

\* a release whose oscillator stops with the call
release_StopsAtOnce(voice) ==
    [voice EXCEPT !.env = "release",
                  !.gain = releaseSchedule(@, ReleaseRampMs),
                  !.oscStop = 0]

\* the release stopNote schedules on a voice
release(voice) ==
    [voice EXCEPT !.env = "release",
                  !.gain = releaseSchedule(@, ReleaseRampMs),
                  !.oscStop = OscStopDelay]

\* the fade stopAllNotes schedules on a voice: what its disconnect timer holds
fadeOut(voice) ==
    [gain |-> releaseSchedule(voice.gain, FadeRampMs), oscStop |-> FadeStopDelay]

\* playNote without the check for a note that is already active
playNote_NoDuplicateCheck(E, midi, velocity, hostFails) ==
    IF ~isInitialized
    THEN [E |-> E, result |-> "notInitialized"]
    ELSE IF hostFails
    THEN [E |-> E, result |-> "error"]
    ELSE LET osc == Fresh(OscInUse(E.activeNotes, E.timers))
             E1 == [E EXCEPT !.activeNotes = MapSet(@, midi, Voice(osc, velocity, midiToFrequency(midi))),
                             !.activeNoteCount = @ + 1]
         IN  [E |-> updateSpeakerIcon(E1),
              result |-> IF midi \in DOMAIN E.activeNotes THEN "duplicate" ELSE "started"]

\* playNote that starts a new voice in place of one that is being released
playNote_ReplacesReleasing(E, midi, velocity, hostFails) ==
    IF ~isInitialized
    THEN [E |-> E, result |-> "notInitialized"]
    ELSE IF midi \in DOMAIN E.activeNotes /\ E.activeNotes[midi].env # "release"
    THEN [E |-> E, result |-> "duplicate"]
    ELSE IF hostFails
    THEN [E |-> E, result |-> "error"]
    ELSE LET osc == Fresh(OscInUse(E.activeNotes, E.timers))
             E1 == [E EXCEPT !.activeNotes = MapSet(@, midi, Voice(osc, velocity, midiToFrequency(midi))),
                             !.activeNoteCount = Cardinality(DOMAIN E.activeNotes \cup {midi})]
         IN  [E |-> updateSpeakerIcon(E1), result |-> "started"]

\* playNote without the check of the engine's initialization
playNote_Unready(E, midi, velocity, hostFails) ==
    IF midi \in DOMAIN E.activeNotes
    THEN [E |-> E, result |-> "duplicate"]
    ELSE IF hostFails
    THEN [E |-> E, result |-> "error"]
    ELSE LET osc == Fresh(OscInUse(E.activeNotes, E.timers))
             E1 == [E EXCEPT !.activeNotes = MapSet(@, midi, Voice(osc, velocity, midiToFrequency(midi))),
                             !.activeNoteCount = @ + 1]
         IN  [E |-> updateSpeakerIcon(E1), result |-> "started"]

\* AudioEngine.playNote(midi, velocity)
playNote(E, midi, velocity, hostFails) ==
    IF ~isInitialized
    THEN [E |-> E, result |-> "notInitialized"]
    ELSE IF midi \in DOMAIN E.activeNotes
    THEN [E |-> E, result |-> "duplicate"]
    ELSE IF hostFails
    THEN [E |-> E, result |-> "error"]
    ELSE LET osc == Fresh(OscInUse(E.activeNotes, E.timers))
             E1 == [E EXCEPT !.activeNotes = MapSet(@, midi, Voice(osc, velocity, midiToFrequency(midi))),
                             !.activeNoteCount = @ + 1]
         IN  [E |-> updateSpeakerIcon(E1), result |-> "started"]

\* stopNote that schedules the release but sets no cleanup timer
stopNote_NoCleanupTimer(E, midi, hostFails) ==
    IF ~isInitialized
    THEN [E |-> E, result |-> "notInitialized"]
    ELSE IF midi \notin DOMAIN E.activeNotes
    THEN [E |-> E, result |-> "absent"]
    ELSE IF hostFails
    THEN LET E1 == [E EXCEPT !.activeNotes = MapDelete(@, midi),
                             !.activeNoteCount = @ - 1]
         IN  [E |-> updateSpeakerIcon(E1), result |-> "error"]
    ELSE [E |-> [E EXCEPT !.activeNotes[midi] = release(@)], result |-> "released"]

\* stopNote whose catch block only logs the error
stopNote_ErrorKeepsVoice(E, midi, hostFails) ==
    IF ~isInitialized
    THEN [E |-> E, result |-> "notInitialized"]
    ELSE IF midi \notin DOMAIN E.activeNotes
    THEN [E |-> E, result |-> "absent"]
    ELSE IF hostFails
    THEN [E |-> E, result |-> "error"]
    ELSE LET v == E.activeNotes[midi]
             t == NewTimer(0, "cleanup", CleanupDelay, midi, v.osc, 0, NoEvent)
         IN  [E |-> [E EXCEPT !.activeNotes[midi] = release(@),
                              !.timers = @ (+) SetToBag({t})],
              result |-> "released"]

\* AudioEngine.stopNote(midi)
stopNote(E, midi, hostFails) ==
    IF ~isInitialized
    THEN [E |-> E, result |-> "notInitialized"]
    ELSE IF midi \notin DOMAIN E.activeNotes
    THEN [E |-> E, result |-> "absent"]
    ELSE IF hostFails
    THEN LET E1 == [E EXCEPT !.activeNotes = MapDelete(@, midi),
                             !.activeNoteCount = @ - 1]
         IN  [E |-> updateSpeakerIcon(E1), result |-> "error"]
    ELSE LET v == E.activeNotes[midi]
             t == NewTimer(0, "cleanup", CleanupDelay, midi, v.osc, 0, NoEvent)
         IN  [E |-> [E EXCEPT !.activeNotes[midi] = release(@),
                              !.timers = @ (+) SetToBag({t})],
              result |-> "released"]

\* the cleanup callback of the first engine: delete without the identity check
cleanupCallback_Unguarded(E, t) ==
    IF t.note \in DOMAIN E.activeNotes
    THEN LET E1 == [E EXCEPT !.activeNotes = MapDelete(@, t.note),
                             !.activeNoteCount = @ - 1]
         IN  [E |-> updateSpeakerIcon(E1), result |-> "removed"]
    ELSE [E |-> E, result |-> "skipped"]

\* a cleanup callback that removes the voice and leaves the count
cleanupCallback_KeepsCount(E, t) ==
    IF t.note \in DOMAIN E.activeNotes /\ E.activeNotes[t.note].osc = t.osc
    THEN LET E1 == [E EXCEPT !.activeNotes = MapDelete(@, t.note)]
         IN  [E |-> updateSpeakerIcon(E1), result |-> "removed"]
    ELSE [E |-> E, result |-> "skipped"]

\* the callback of the cleanup timer set by stopNote
cleanupCallback(E, t) ==
    IF t.note \in DOMAIN E.activeNotes /\ E.activeNotes[t.note].osc = t.osc
    THEN LET E1 == [E EXCEPT !.activeNotes = MapDelete(@, t.note),
                             !.activeNoteCount = @ - 1]
         IN  [E |-> updateSpeakerIcon(E1), result |-> "removed"]
    ELSE [E |-> E, result |-> "skipped"]

\* the disconnect timers stopAllNotes sets, one per voice whose fade was
\* scheduled without error
RECURSIVE disconnectTimers(_, _, _)
disconnectTimers(stopped, an, tm) ==
    IF stopped = {} THEN tm
    ELSE LET m == Min(stopped)
             t == [NewTimer(0, "disconnect", DisconnectDelay, 0, 0, 0, NoEvent)
                     EXCEPT !.node = fadeOut(an[m])]
         IN  disconnectTimers(stopped \ {m}, an, tm (+) SetToBag({t}))

\* stopAllNotes that drops only the voices whose fade was scheduled
stopAllNotes_KeepsFailing(E, failing) ==
    IF ~isInitialized
    THEN [E |-> E, result |-> "notInitialized"]
    ELSE LET stopped == (DOMAIN E.activeNotes) \ failing
             tm == disconnectTimers(stopped, E.activeNotes, E.timers)
             E1 == [E EXCEPT !.timers = tm,
                             !.activeNotes = [m \in failing \cap DOMAIN E.activeNotes
                                                |-> E.activeNotes[m]],
                             !.activeNoteCount = @ - Cardinality(stopped)]
         IN  [E |-> updateSpeakerIcon(E1), result |-> "stopped"]

\* stopAllNotes that clears the map and leaves the count
stopAllNotes_KeepsCount(E, failing) ==
    IF ~isInitialized
    THEN [E |-> E, result |-> "notInitialized"]
    ELSE LET tm == disconnectTimers((DOMAIN E.activeNotes) \ failing,
                                    E.activeNotes, E.timers)
             E1 == [E EXCEPT !.timers = tm, !.activeNotes = EmptyMap]
         IN  [E |-> updateSpeakerIcon(E1), result |-> "stopped"]

\* stopAllNotes that also clears the pending callbacks of a playback
stopAllNotes_CancelsReplay(E, failing) ==
    IF ~isInitialized
    THEN [E |-> E, result |-> "notInitialized"]
    ELSE LET NotReplay(t) == t.kind # "event"
             tm == disconnectTimers((DOMAIN E.activeNotes) \ failing,
                                    E.activeNotes, BagFilter(NotReplay, E.timers))
             E1 == [E EXCEPT !.timers = tm,
                             !.activeNotes = EmptyMap,
                             !.activeNoteCount = 0]
         IN  [E |-> updateSpeakerIcon(E1), result |-> "stopped"]

\* AudioEngine.stopAllNotes(); failing = the voices whose fade raises an error
stopAllNotes(E, failing) ==
    IF ~isInitialized
    THEN [E |-> E, result |-> "notInitialized"]
    ELSE LET tm == disconnectTimers((DOMAIN E.activeNotes) \ failing,
                                    E.activeNotes, E.timers)
             E1 == [E EXCEPT !.timers = tm,
                             !.activeNotes = EmptyMap,
                             !.activeNoteCount = 0]
         IN  [E |-> updateSpeakerIcon(E1), result |-> "stopped"]

SetEngine(E) ==
    /\ activeNotes' = E.activeNotes
    /\ activeNoteCount' = E.activeNoteCount
    /\ speakerActive' = E.speakerActive
    /\ timers' = E.timers

\* history: the operation that produced the state, the branch it took, an
\* operand or amount (note, index, number of voices or callbacks) and, for
\* a callback, the kind of stop it was pending at ("no" if none)
Op(op, result, n, stale) == [op |-> op, result |-> result, n |-> n, stale |-> stale]

\* external operations stop being issued when the timer queue is full
Room(n) == BagCardinality(timers) + n <= MaxTimers

recVars == <<isRecording, isPlaying, recordedEvents, playbackTimeouts, run>>
engVars == <<isInitialized, activeNotes, activeNoteCount, speakerActive, timers>>
sessVars == <<now, recordingStartTime, returned, saved, ui>>
inputVars == <<pressedKeys, pointerStarted>>

\* init without the early return for an initialized engine
init_Reinitializes(initialized, ok) ==
    IF ok THEN [isInitialized |-> TRUE, result |-> "ok", created |-> 1]
    ELSE [isInitialized |-> initialized, result |-> "error", created |-> 0]

\* AudioEngine.init(): the AudioContext and the master gain are created, or
\* the host refuses and the error is thrown again; created is the number of
\* output graphs the call has made
init(initialized, ok) ==
    IF initialized THEN [isInitialized |-> TRUE, result |-> "already", created |-> 0]
    ELSE IF ok THEN [isInitialized |-> TRUE, result |-> "ok", created |-> 1]
    ELSE [isInitialized |-> FALSE, result |-> "error", created |-> 0]

\* audioEngine.init() called
Initialize(ok) ==
    /\ isInitialized' = init(isInitialized, ok).isInitialized
    /\ lastOp' = Op("init", init(isInitialized, ok).result,
                    init(isInitialized, ok).created, "no")
    /\ UNCHANGED <<activeNotes, activeNoteCount, speakerActive, timers, keyActive, inputVars>>
    /\ UNCHANGED recVars
    /\ UNCHANGED sessVars

\* a note-on reaching the engine
PlayNote(midi, velocity, hostFails) ==
    LET r == playNote(Engine, midi, velocity, hostFails) IN
    /\ SetEngine(r.E)
    /\ lastOp' = Op("playNote", r.result, midi, "no")
    /\ UNCHANGED <<isInitialized, keyActive, inputVars>>
    /\ UNCHANGED recVars
    /\ UNCHANGED sessVars

\* a note-off reaching the engine
StopNote(midi, hostFails) ==
    LET r == stopNote(Engine, midi, hostFails) IN
    /\ Room(1)
    /\ SetEngine(r.E)
    /\ lastOp' = Op("stopNote", r.result, midi, "no")
    /\ UNCHANGED <<isInitialized, keyActive, inputVars>>
    /\ UNCHANGED recVars
    /\ UNCHANGED sessVars

\* an emergency stop reaching the engine
StopAllNotes(failing) ==
    LET r == stopAllNotes(Engine, failing) IN
    /\ Room(Cardinality(DOMAIN activeNotes))
    /\ SetEngine(r.E)
    /\ lastOp' = Op("stopAllNotes", r.result, Cardinality(DOMAIN activeNotes), "no")
    /\ UNCHANGED <<isInitialized, keyActive, inputVars>>
    /\ UNCHANGED recVars
    /\ UNCHANGED sessVars

\* visibilitychange with document.hidden: stopAllNotes() if the engine is ready
HostHidden(failing) ==
    LET r == stopAllNotes([Engine EXCEPT !.timers = MarkStale(@, "engine")], failing) IN
    /\ isInitialized
    /\ Room(Cardinality(DOMAIN activeNotes))
    /\ SetEngine(r.E)
    /\ lastOp' = Op("hostHidden", r.result, Cardinality(DOMAIN activeNotes), "no")
    /\ UNCHANGED <<isInitialized, keyActive, inputVars>>
    /\ UNCHANGED recVars
    /\ UNCHANGED sessVars

\* beforeunload: stopAllNotes(), whatever the state of the engine
HostUnloading(failing) ==
    LET r == stopAllNotes([Engine EXCEPT !.timers = MarkStale(@, "engine")], failing) IN
    /\ Room(Cardinality(DOMAIN activeNotes))
    /\ SetEngine(r.E)
    /\ lastOp' = Op("hostUnloading", r.result, Cardinality(DOMAIN activeNotes), "no")
    /\ UNCHANGED <<isInitialized, keyActive, inputVars>>
    /\ UNCHANGED recVars
    /\ UNCHANGED sessVars

\* ------------------------------------------------- the recording system
\* loadRecording without the validation of data.events
validEvents_Unchecked(data) == TRUE

\* !(!data.events || !Array.isArray(data.events))
validEvents(data) == data.kind = "array"

\* RecordingSystem.loadRecording(file): reader.onload for a parsed document;
\* the history holds the number of events of the document, -1 if it has no
\* events array
loadRecording(data) ==
    LET n == IF data.kind = "array" THEN Len(data.events) ELSE -1 IN
    /\ IF ~validEvents(data)
       THEN /\ UNCHANGED <<recordedEvents, returned>>
            /\ lastOp' = Op("loadRecording", "rejected", n, "no")
       ELSE /\ recordedEvents' = data.events
            /\ returned' = [returned EXCEPT !.aliased = FALSE]
            /\ lastOp' = Op("loadRecording", "resolved", n, "no")
    /\ UNCHANGED <<isRecording, isPlaying, playbackTimeouts, run, keyActive, inputVars>>
    /\ UNCHANGED <<now, recordingStartTime, saved>>
    /\ UNCHANGED engVars

\* recordingSystem.loadRecording(file) called
LoadRecording(data) ==
    /\ loadRecording(data)
    /\ UNCHANGED ui

\* RecordingSystem.clearRecording()
ClearRecording ==
    /\ recordedEvents' = <<>>
    /\ returned' = [returned EXCEPT !.aliased = FALSE]
    /\ lastOp' = Op("clearRecording", "cleared", 0, "no")
    /\ UNCHANGED <<isRecording, isPlaying, playbackTimeouts, run, keyActive, inputVars>>
    /\ UNCHANGED <<now, recordingStartTime, saved, ui>>
    /\ UNCHANGED engVars

\* every callback staggered by its index instead of its timestamp
eventTimer_ByIndex(id, i, event) ==
    NewTimer(id, "event", i * TickMs, event.note, 0, i, event)

\* setTimeout(callback, event.timestamp) for the event at index i
eventTimer(id, i, event) ==
    NewTimer(id, "event", event.timestamp, event.note, 0, i, event)

\* the timers playRecording sets, one per event in sequence order; returns
\* the timer queue and the identities pushed to playbackTimeouts; reading
\* event.timestamp of a null entry throws and ends the forEach
RECURSIVE scheduleEvents(_, _, _, _)
scheduleEvents(events, i, tm, ids) ==
    IF i > Len(events) THEN [timers |-> tm, ids |-> ids, threw |-> FALSE]
    ELSE IF events[i] = NullEntry
    THEN [timers |-> tm, ids |-> ids, threw |-> TRUE]
    ELSE LET id == Fresh(TimerIds(tm))
         IN  scheduleEvents(events, i + 1,
                            tm (+) SetToBag({eventTimer(id, i, events[i])}),
                            Append(ids, id))

\* the greatest timestamp of a non-empty session
LastTimestamp(events) == Max({events[i].timestamp : i \in DOMAIN events})

\* playRecording without the check for a running playback
playRefused_IgnoresPlaying ==
    IF Len(recordedEvents) = 0 THEN "noRecording" ELSE "no"

\* the early returns of playRecording
playRefused == IF isPlaying THEN "alreadyPlaying"
               ELSE IF Len(recordedEvents) = 0 THEN "noRecording"
               ELSE "no"

\* RecordingSystem.playRecording()
playRecording ==
    /\ IF playRefused # "no"
       THEN /\ UNCHANGED <<isPlaying, playbackTimeouts, timers, run>>
            /\ lastOp' = Op("playRecording", playRefused, 0, "no")
       ELSE LET s == scheduleEvents(recordedEvents, 1, timers, <<>>) IN
            /\ Room(Len(recordedEvents))
            /\ isPlaying' = TRUE
            /\ timers' = s.timers
            /\ playbackTimeouts' = s.ids
            /\ run' = [lastTimestamp |-> LastTimestamp(recordedEvents), elapsed |-> 0]
            /\ lastOp' = Op("playRecording", IF s.threw THEN "TypeError" ELSE "playing",
                            Len(recordedEvents), "no")
    /\ UNCHANGED <<isInitialized, activeNotes, activeNoteCount, speakerActive>>
    /\ UNCHANGED <<isRecording, recordedEvents, keyActive, inputVars>>

\* recordingSystem.playRecording() called
PlayRecording ==
    /\ playRecording
    /\ UNCHANGED sessVars

\* stopPlayback that forgets to clear the pending timeouts
clearTimeouts_None(tm, ids) == tm

\* playbackTimeouts.forEach(clearTimeout): the timers that stay pending
clearTimeouts(tm, ids) ==
    LET NotCleared(t) == t.id \notin ids IN BagFilter(NotCleared, tm)

\* stopPlayback that empties the list of timeouts without clearing them
stopPlayback_ForgetsTimeouts(E, playing, failing) ==
    IF ~playing
    THEN [E |-> E, isPlaying |-> playing, playbackTimeouts |-> playbackTimeouts,
          result |-> "notPlaying", cancelled |-> 0]
    ELSE LET r == stopAllNotes([E EXCEPT !.timers = MarkStale(@, "playback")], failing)
         IN  [E |-> r.E, isPlaying |-> FALSE, playbackTimeouts |-> <<>>,
              result |-> "stopped", cancelled |-> 0]

\* stopPlayback that clears its timeouts and leaves the engine alone
stopPlayback_KeepsVoices(E, playing, failing) ==
    IF ~playing
    THEN [E |-> E, isPlaying |-> playing, playbackTimeouts |-> playbackTimeouts,
          result |-> "notPlaying", cancelled |-> 0]
    ELSE LET ids == {playbackTimeouts[i] : i \in DOMAIN playbackTimeouts}
             kept == clearTimeouts(MarkStale(E.timers, "playback"), ids)
         IN  [E |-> [E EXCEPT !.timers = kept], isPlaying |-> FALSE,
              playbackTimeouts |-> <<>>, result |-> "stopped",
              cancelled |-> BagCardinality(E.timers) - BagCardinality(kept)]

\* RecordingSystem.stopPlayback(), applied to the engine state E
stopPlayback(E, playing, failing) ==
    IF ~playing
    THEN [E |-> E, isPlaying |-> playing, playbackTimeouts |-> playbackTimeouts,
          result |-> "notPlaying", cancelled |-> 0]
    ELSE LET ids == {playbackTimeouts[i] : i \in DOMAIN playbackTimeouts}
             kept == clearTimeouts(MarkStale(E.timers, "playback"), ids)
             r == stopAllNotes([E EXCEPT !.timers = kept], failing)
         IN  [E |-> r.E, isPlaying |-> FALSE, playbackTimeouts |-> <<>>,
              result |-> "stopped",
              cancelled |-> BagCardinality(E.timers) - BagCardinality(kept)]

\* playback stop requested from outside the timer callbacks
StopPlayback(failing) ==
    LET r == stopPlayback(Engine, isPlaying, failing) IN
    /\ SetEngine(r.E)
    /\ isPlaying' = r.isPlaying
    /\ playbackTimeouts' = r.playbackTimeouts
    /\ run' = IF isPlaying THEN NoRun ELSE run
    /\ lastOp' = Op("stopPlayback", r.result, r.cancelled, "no")
    /\ UNCHANGED <<isInitialized, isRecording, recordedEvents, keyActive, inputVars>>
    /\ UNCHANGED sessVars

\* ------------------------------------------------------------ the recorder
\* the clock readings a recording may start at
ClockReadings == {k * TickMs : k \in 0..MaxClock}

\* history: no array has been returned by stopRecording yet.  aliased holds
\* while this.recordedEvents is still the returned array object
NoSession == [valid |-> FALSE, aliased |-> FALSE, events |-> <<>>]

\* the recorder's mutable state, passed through the recorder operations
Recorder == [isRecording |-> isRecording, recordedEvents |-> recordedEvents,
             recordingStartTime |-> recordingStartTime, returned |-> returned]

SetRecorder(R) ==
    /\ isRecording' = R.isRecording
    /\ recordedEvents' = R.recordedEvents
    /\ recordingStartTime' = R.recordingStartTime
    /\ returned' = R.returned

\* startRecording that empties the array in place
startRecording_ClearsInPlace(R, t0) ==
    IF R.isRecording THEN [R |-> R, value |-> "undefined"]
    ELSE [R |-> [R EXCEPT !.isRecording = TRUE,
                          !.recordedEvents = <<>>,
                          !.recordingStartTime = t0,
                          !.returned.events = IF R.returned.aliased THEN <<>> ELSE @],
          value |-> "true"]

\* RecordingSystem.startRecording(), the clock reading t0
startRecording(R, t0) ==
    IF R.isRecording THEN [R |-> R, value |-> "undefined"]
    ELSE [R |-> [R EXCEPT !.isRecording = TRUE,
                          !.recordedEvents = <<>>,
                          !.recordingStartTime = t0,
                          !.returned.aliased = FALSE],
          value |-> "true"]

\* RecordingSystem.stopRecording(): returns this.recordedEvents itself
stopRecording(R) ==
    IF ~R.isRecording THEN [R |-> R, value |-> "undefined"]
    ELSE [R |-> [R EXCEPT !.isRecording = FALSE,
                          !.returned = [valid |-> TRUE, aliased |-> TRUE,
                                        events |-> R.recordedEvents]],
          value |-> "events"]

\* recordEvent that pushes whether recording or not
recordEvent_Unguarded(R, event) ==
    LET adjustedEvent == [event EXCEPT !.timestamp = @ - R.recordingStartTime]
        log == Append(R.recordedEvents, adjustedEvent)
    IN  [R EXCEPT !.recordedEvents = log,
                  !.returned.events = IF R.returned.aliased THEN log ELSE @]

\* recordEvent that stores the raw timestamp
recordEvent_RawTimestamp(R, event) ==
    IF ~R.isRecording THEN R
    ELSE LET log == Append(R.recordedEvents, event)
         IN  [R EXCEPT !.recordedEvents = log,
                       !.returned.events = IF R.returned.aliased THEN log ELSE @]

\* RecordingSystem.recordEvent(event): push onto the array in place
recordEvent(R, event) ==
    IF ~R.isRecording THEN R
    ELSE LET adjustedEvent == [event EXCEPT !.timestamp = @ - R.recordingStartTime]
             log == Append(R.recordedEvents, adjustedEvent)
         IN  [R EXCEPT !.recordedEvents = log,
                       !.returned.events = IF R.returned.aliased THEN log ELSE @]

\* recordingSystem.startRecording() called
StartRecording(t0) ==
    LET r == startRecording(Recorder, t0) IN
    /\ SetRecorder(r.R)
    /\ now' = IF isRecording THEN now ELSE t0
    /\ lastOp' = Op("startRecording", r.value, 0, "no")
    /\ UNCHANGED <<isPlaying, playbackTimeouts, run, keyActive, inputVars, saved, ui>>
    /\ UNCHANGED engVars

\* recordingSystem.stopRecording() called; the clock is not followed while
\* no recording is active
StopRecording ==
    LET r == stopRecording(Recorder) IN
    /\ SetRecorder(r.R)
    /\ now' = 0
    /\ lastOp' = Op("stopRecording", r.value, Len(recordedEvents), "no")
    /\ UNCHANGED <<isPlaying, playbackTimeouts, run, keyActive, inputVars, saved, ui>>
    /\ UNCHANGED engVars

\* InputHandler.notifyRecorder(type, note, velocity): the recorder callback
\* receives the event stamped with performance.now()
RecordEvent(type, note, velocity) ==
    LET event == [type |-> type, note |-> note, velocity |-> velocity,
                  timestamp |-> now] IN
    /\ isRecording => Len(recordedEvents) < MaxEvents
    /\ SetRecorder(recordEvent(Recorder, event))
    /\ lastOp' = Op("recordEvent", IF isRecording THEN type ELSE "dropped", note, "no")
    /\ UNCHANGED <<isPlaying, playbackTimeouts, run, keyActive, inputVars, now, saved, ui>>
    /\ UNCHANGED engVars

\* ------------------------------------------------------- save and load
\* the decimal digits of a non-negative integer, and their value
RECURSIVE Digits(_)
Digits(n) == IF n < 10 THEN <<n>> ELSE Append(Digits(n \div 10), n % 10)

RECURSIVE FromDigits(_)
FromDigits(d) ==
    IF Len(d) = 0 THEN 0 ELSE FromDigits(SubSeq(d, 1, Len(d) - 1)) * 10 + d[Len(d)]

\* a number written without its fraction
Decimal_Truncated(n, scale) == [int |-> Digits(n \div scale), frac |-> <<>>]

\* JSON text of the number n / scale, scale 1 or 10: integer digits and,
\* unless the number is whole, one fraction digit
Decimal(n, scale) ==
    [int |-> Digits(n \div scale),
     frac |-> IF n % scale = 0 THEN <<>> ELSE <<n % scale>>]

\* the number a JSON number text stands for, in units of 1 / scale
ParseDecimal(tok, scale) ==
    FromDigits(tok.int) * scale + (IF tok.frac = <<>> THEN 0 ELSE tok.frac[1])

\* JSON.stringify(recordingData, null, 2); velocities are held in tenths
JSONstringify(recordingData) ==
    [version |-> recordingData.version,
     date |-> recordingData.date,
     duration |-> Decimal(recordingData.duration, 1),
     eventCount |-> Decimal(recordingData.eventCount, 1),
     events |-> [i \in DOMAIN recordingData.events |->
                   LET e == recordingData.events[i] IN
                   [type |-> e.type,
                    note |-> Decimal(e.note, 1),
                    velocity |-> Decimal(e.velocity, 10),
                    timestamp |-> Decimal(e.timestamp, 1)]]]

\* JSON.parse(event.target.result) of a text JSON.stringify wrote
JSONparse(text) ==
    [kind |-> "array",
     version |-> text.version,
     date |-> text.date,
     duration |-> ParseDecimal(text.duration, 1),
     eventCount |-> ParseDecimal(text.eventCount, 1),
     events |-> [i \in DOMAIN text.events |->
                   LET e == text.events[i] IN
                   [type |-> e.type,
                    note |-> ParseDecimal(e.note, 1),
                    velocity |-> ParseDecimal(e.velocity, 10),
                    timestamp |-> ParseDecimal(e.timestamp, 1)]]]

\* history: no file has been downloaded yet
NoFile == [valid |-> FALSE, text |-> <<>>, session |-> <<>>]

\* saveRecording that takes the duration from the first event
saveRecording_DurationOfFirst(events) ==
    IF Len(events) = 0 THEN [value |-> "null"]
    ELSE [value |-> "recordingData",
          recordingData |-> [version |-> "1.0", date |-> "ISO-8601",
                             duration |-> events[1].timestamp,
                             eventCount |-> Len(events),
                             events |-> events]]

\* RecordingSystem.saveRecording(): the document, or null without events
saveRecording(events) ==
    IF Len(events) = 0 THEN [value |-> "null"]
    ELSE [value |-> "recordingData",
          recordingData |-> [version |-> "1.0", date |-> "ISO-8601",
                             duration |-> events[Len(events)].timestamp,
                             eventCount |-> Len(events),
                             events |-> events]]

\* recordingSystem.saveRecording() called: the JSON text is downloaded
SaveRecording ==
    LET r == saveRecording(recordedEvents) IN
    /\ saved' = IF r.value = "null" THEN saved
                ELSE [valid |-> TRUE, text |-> JSONstringify(r.recordingData),
                      session |-> recordedEvents]
    /\ lastOp' = Op("saveRecording", r.value, Len(recordedEvents), "no")
    /\ UNCHANGED <<now, recordingStartTime, returned, ui, keyActive, inputVars>>
    /\ UNCHANGED recVars
    /\ UNCHANGED engVars

\* the downloaded file is chosen for loading
LoadSaved ==
    /\ saved.valid
    /\ LoadRecording(JSONparse(saved.text))

\* --------------------------------------------------- the page's controls
\* the Record control is usable from the start; Stop, Play and Save are
\* enabled by the handlers below
InitialControls ==
    [recording |-> FALSE, playing |-> FALSE, recordDisabled |-> FALSE,
     stopDisabled |-> TRUE, playDisabled |-> TRUE, saveDisabled |-> TRUE,
     status |-> "initial"]

\* click on #recordBtn
ClickRecord(t0) ==
    LET r == startRecording(Recorder, t0) IN
    /\ ~ui.recordDisabled
    /\ SetRecorder(r.R)
    /\ now' = IF isRecording THEN now ELSE t0
    /\ ui' = [ui EXCEPT !.recording = TRUE, !.stopDisabled = FALSE,
                        !.playDisabled = TRUE, !.saveDisabled = TRUE,
                        !.status = "Recording in progress..."]
    /\ lastOp' = Op("clickRecord", r.value, 0, "no")
    /\ UNCHANGED <<isPlaying, playbackTimeouts, run, keyActive, inputVars, saved>>
    /\ UNCHANGED engVars

\* click on #stopBtn: events.length is read from what stopRecording returned
ClickStop ==
    LET r == stopRecording(Recorder) IN
    /\ ~ui.stopDisabled
    /\ SetRecorder(r.R)
    /\ now' = 0
    /\ IF r.value = "undefined"
       THEN /\ ui' = [ui EXCEPT !.recording = FALSE]
            /\ lastOp' = Op("clickStop", "TypeError", 0, "no")
       ELSE /\ ui' = [ui EXCEPT !.recording = FALSE,
                                !.playDisabled = IF Len(recordedEvents) > 0 THEN FALSE ELSE @,
                                !.saveDisabled = IF Len(recordedEvents) > 0 THEN FALSE ELSE @,
                                !.status = IF Len(recordedEvents) > 0
                                           THEN "Recording saved"
                                           ELSE "No events recorded"]
            /\ lastOp' = Op("clickStop", "ok", Len(recordedEvents), "no")
    /\ UNCHANGED <<isPlaying, playbackTimeouts, run, keyActive, inputVars, saved>>
    /\ UNCHANGED engVars

\* click on #playBtn
ClickPlay ==
    /\ ~ui.playDisabled
    /\ playRecording
    /\ ui' = [ui EXCEPT !.playing = TRUE, !.stopDisabled = TRUE,
                        !.recordDisabled = TRUE,
                        !.status = "Playing recording..."]
    /\ UNCHANGED <<now, recordingStartTime, returned, saved>>

\* RecordingSystem.getRecordingInfo(): null when the log holds no event
getRecordingInfo(events) ==
    IF Len(events) = 0 THEN [null |-> TRUE]
    ELSE [null |-> FALSE, eventCount |-> Len(events),
          duration |-> events[Len(events)].timestamp]

\* change on #loadFile: the catch block is entered when loadRecording
\* rejects and when info.eventCount is read from a null info, after the
\* Play and Save controls were enabled
LoadFile(data) ==
    /\ loadRecording(data)
    /\ ui' = IF ~validEvents(data)
             THEN [ui EXCEPT !.status = "Failed to load recording"]
             ELSE IF getRecordingInfo(data.events).null
             THEN [ui EXCEPT !.playDisabled = FALSE, !.saveDisabled = FALSE,
                             !.status = "Failed to load recording"]
             ELSE [ui EXCEPT !.playDisabled = FALSE, !.saveDisabled = FALSE,
                             !.status = "Loaded"]

\* the checkPlaybackEnd interval finds playback over
CheckPlaybackEnd ==
    /\ ~isPlaying /\ ui.playing
    /\ ui' = [ui EXCEPT !.playing = FALSE, !.stopDisabled = FALSE,
                        !.recordDisabled = FALSE,
                        !.status = "Playback finished"]
    /\ lastOp' = Op("checkPlaybackEnd", "finished", 0, "no")
    /\ UNCHANGED <<now, recordingStartTime, returned, saved, keyActive, inputVars>>
    /\ UNCHANGED recVars
    /\ UNCHANGED engVars

\* ----------------------------------------------------- the input handler
\* the velocity the input handler plays and reports, in tenths
PressVelocity == 5

\* InputHandler.createMidiToKeyElementMap(): map.set(midi, key) in document
\* order, so the last element of a note is the one kept; the result is the
\* set holding the element, empty if no element carries the note
midiToKeyElement(midi) ==
    LET idx == {i \in DOMAIN KeyElements : dataNote[KeyElements[i]] = midi}
    IN  IF idx = {} THEN {} ELSE {KeyElements[Max(idx)]}

\* InputHandler.activateKey(midi) and deactivateKey(midi)
activateKey(ka, midi) == ka \cup midiToKeyElement(midi)
deactivateKey(ka, midi) == ka \ midiToKeyElement(midi)

\* InputHandler.notifyRecorder(type, note, velocity) with the callback initApp
\* sets: recordingSystem.recordEvent of the event stamped performance.now()
notifyRecorder(R, type, note, velocity) ==
    recordEvent(R, [type |-> type, note |-> note, velocity |-> velocity,
                    timestamp |-> now])

\* history of a handler of the input handler: the key or the element it was for
KeyOp(op, result, n, key) ==
    [op |-> op, result |-> result, n |-> n, stale |-> "no", key |-> key]

\* handleKeyDown without the check of the pressed keys
isRepeat_Never(pk, key) == FALSE

\* this.pressedKeys.has(key)
isRepeat(pk, key) == key \in pk

\* InputHandler.handleKeyDown(event) for event.key = key
HandleKeyDown(key, hostFails) ==
    LET mapped == key \in Keys
        midi == IF mapped THEN keyToMidi[key] ELSE 0
        acts == mapped /\ ~isRepeat(pressedKeys, key)
        r == IF acts THEN playNote(Engine, midi, PressVelocity, hostFails)
             ELSE [E |-> Engine, result |-> IF mapped THEN "repeat" ELSE "unmapped"]
        R == IF acts THEN notifyRecorder(Recorder, "noteOn", midi, PressVelocity)
             ELSE Recorder
    IN  /\ (acts /\ isRecording) => Len(recordedEvents) < MaxEvents
        /\ SetEngine(r.E)
        /\ SetRecorder(R)
        /\ pressedKeys' = IF acts THEN pressedKeys \cup {key} ELSE pressedKeys
        /\ keyActive' = IF acts THEN activateKey(keyActive, midi) ELSE keyActive
        /\ lastOp' = KeyOp("keydown", r.result, midi, key)
        /\ UNCHANGED <<isInitialized, isPlaying, playbackTimeouts, run, now,
                       saved, ui, pointerStarted>>

\* InputHandler.handleKeyUp(event) for event.key = key
HandleKeyUp(key, hostFails) ==
    LET mapped == key \in Keys
        midi == IF mapped THEN keyToMidi[key] ELSE 0
        r == IF mapped THEN stopNote(Engine, midi, hostFails)
             ELSE [E |-> Engine, result |-> "unmapped"]
        R == IF mapped THEN notifyRecorder(Recorder, "noteOff", midi, 0)
             ELSE Recorder
    IN  /\ (mapped /\ isRecording) => Len(recordedEvents) < MaxEvents
        /\ mapped => Room(1)
        /\ SetEngine(r.E)
        /\ SetRecorder(R)
        /\ pressedKeys' = IF mapped THEN pressedKeys \ {key} ELSE pressedKeys
        /\ keyActive' = IF mapped THEN deactivateKey(keyActive, midi) ELSE keyActive
        /\ lastOp' = KeyOp("keyup", r.result, midi, key)
        /\ UNCHANGED <<isInitialized, isPlaying, playbackTimeouts, run, now,
                       saved, ui, pointerStarted>>

\* InputHandler.handlePointerDown(midi, keyElement) for the element k
HandlePointerDown(k, hostFails) ==
    LET midi == dataNote[k]
        acts == k \notin keyActive
        r == IF acts THEN playNote(Engine, midi, PressVelocity, hostFails)
             ELSE [E |-> Engine, result |-> "alreadyActive"]
        R == IF acts THEN notifyRecorder(Recorder, "noteOn", midi, PressVelocity)
             ELSE Recorder
    IN  /\ (acts /\ isRecording) => Len(recordedEvents) < MaxEvents
        /\ SetEngine(r.E)
        /\ SetRecorder(R)
        /\ keyActive' = IF acts THEN activateKey(keyActive, midi) ELSE keyActive
        /\ pointerStarted' = IF r.result = "started" THEN pointerStarted \cup {k}
                             ELSE pointerStarted
        /\ lastOp' = KeyOp("pointerdown", r.result, midi, k)
        /\ UNCHANGED <<isInitialized, isPlaying, playbackTimeouts, run, now,
                       saved, ui, pressedKeys>>

\* InputHandler.handlePointerUp(midi, keyElement) for the element k
HandlePointerUp(k, hostFails) ==
    LET midi == dataNote[k]
        acts == k \in keyActive
        r == IF acts THEN stopNote(Engine, midi, hostFails)
             ELSE [E |-> Engine, result |-> "notActive"]
        R == IF acts THEN notifyRecorder(Recorder, "noteOff", midi, 0)
             ELSE Recorder
    IN  /\ (acts /\ isRecording) => Len(recordedEvents) < MaxEvents
        /\ acts => Room(1)
        /\ SetEngine(r.E)
        /\ SetRecorder(R)
        /\ keyActive' = IF acts THEN deactivateKey(keyActive, midi) ELSE keyActive
        /\ pointerStarted' = pointerStarted \ {k}
        /\ lastOp' = KeyOp("pointerup", r.result, midi, k)
        /\ UNCHANGED <<isInitialized, isPlaying, playbackTimeouts, run, now,
                       saved, ui, pressedKeys>>

\* --------------------------------------------------- the timer callbacks
\* RecordingSystem.visualizeNote(midi, activate)
visualizeNote(ka, midi, activate) ==
    IF activate THEN ka \cup ElementsOf(midi) ELSE ka \ ElementsOf(midi)

\* a due timer runs unless a timer set earlier by the same playRecording call
\* with a delay not greater than its own is still pending
Due(t) ==
    /\ t \in Pending(timers)
    /\ t.remaining = 0
    /\ t.kind = "event" =>
         ~ \E u \in Pending(timers) : /\ u.kind = "event"
                                      /\ u.index < t.index
                                      /\ u.remaining = 0

\* index === this.recordedEvents.length - 1, read when the callback runs
isLastEvent(t) == t.index = Len(recordedEvents)

\* the callback calling playNote(event.note) with the default velocity
eventCallback_DefaultVelocity(E, ka, t, hostFails) ==
    LET e == t.event
        r == IF e.type = "noteOn" THEN playNote(E, e.note, DefaultVelocity, hostFails)
             ELSE IF e.type = "noteOff" THEN stopNote(E, e.note, hostFails)
             ELSE [E |-> E, result |-> "ignored"]
        grace == NewTimer(0, "grace", GraceDelay, 0, 0, 0, NoEvent)
    IN  [E |-> IF isLastEvent(t)
               THEN [r.E EXCEPT !.timers = @ (+) SetToBag({grace})] ELSE r.E,
         keyActive |-> IF e.type = "noteOn" THEN visualizeNote(ka, e.note, TRUE)
                       ELSE IF e.type = "noteOff" THEN visualizeNote(ka, e.note, FALSE)
                       ELSE ka,
         result |-> r.result]

\* the body of the callback playRecording sets for one event
eventCallback(E, ka, t, hostFails) ==
    LET e == t.event
        r == IF e.type = "noteOn" THEN playNote(E, e.note, e.velocity, hostFails)
             ELSE IF e.type = "noteOff" THEN stopNote(E, e.note, hostFails)
             ELSE [E |-> E, result |-> "ignored"]
        grace == NewTimer(0, "grace", GraceDelay, 0, 0, 0, NoEvent)
    IN  [E |-> IF isLastEvent(t)
               THEN [r.E EXCEPT !.timers = @ (+) SetToBag({grace})] ELSE r.E,
         keyActive |-> IF e.type = "noteOn" THEN visualizeNote(ka, e.note, TRUE)
                       ELSE IF e.type = "noteOff" THEN visualizeNote(ka, e.note, FALSE)
                       ELSE ka,
         result |-> r.result]

\* an event callback that replays through the input handler, which
\* notifies the recorder
EventCallback_NotifiesRecorder(t, hostFails) ==
    LET r == eventCallback([Engine EXCEPT !.timers = @ (-) SetToBag({t})],
                           keyActive, t, hostFails)
        e == t.event IN
    /\ Due(t) /\ t.kind = "event"
    /\ SetEngine(r.E)
    /\ keyActive' = r.keyActive
    /\ UNCHANGED inputVars
    /\ lastOp' = Op("eventCallback", r.result, t.index, t.stale)
    /\ SetRecorder(notifyRecorder(Recorder, e.type, e.note, e.velocity))
    /\ UNCHANGED <<isInitialized, isPlaying, playbackTimeouts, run>>
    /\ UNCHANGED <<now, saved, ui>>

\* an event timer fires
EventCallback(t, hostFails) ==
    LET r == eventCallback([Engine EXCEPT !.timers = @ (-) SetToBag({t})],
                           keyActive, t, hostFails) IN
    /\ Due(t) /\ t.kind = "event"
    /\ SetEngine(r.E)
    /\ keyActive' = r.keyActive
    /\ UNCHANGED inputVars
    /\ lastOp' = Op("eventCallback", r.result, t.index, t.stale)
    /\ UNCHANGED <<isInitialized, isRecording, isPlaying, recordedEvents,
                   playbackTimeouts, run>>
    /\ UNCHANGED sessVars

\* the timer set after the last event fires: stopPlayback()
GraceCallback(t, failing) ==
    LET r == stopPlayback([Engine EXCEPT !.timers = @ (-) SetToBag({t})],
                          isPlaying, failing) IN
    /\ Due(t) /\ t.kind = "grace"
    /\ SetEngine(r.E)
    /\ isPlaying' = r.isPlaying
    /\ playbackTimeouts' = r.playbackTimeouts
    /\ run' = IF isPlaying THEN NoRun ELSE run
    /\ lastOp' = Op("graceCallback", r.result, r.cancelled, t.stale)
    /\ UNCHANGED <<isInitialized, isRecording, recordedEvents, keyActive, inputVars>>
    /\ UNCHANGED sessVars

\* the timer stopNote sets fires: guarded removal of the voice
CleanupCallback(t) ==
    LET r == cleanupCallback([Engine EXCEPT !.timers = @ (-) SetToBag({t})], t) IN
    /\ Due(t) /\ t.kind = "cleanup"
    /\ SetEngine(r.E)
    /\ lastOp' = Op("cleanupCallback", r.result, t.note, t.stale)
    /\ UNCHANGED <<isInitialized, keyActive, inputVars>>
    /\ UNCHANGED recVars
    /\ UNCHANGED sessVars

\* the timer stopAllNotes sets fires: the nodes are disconnected
DisconnectCallback(t) ==
    /\ Due(t) /\ t.kind = "disconnect"
    /\ timers' = timers (-) SetToBag({t})
    /\ lastOp' = Op("disconnectCallback", "disconnected", 0, t.stale)
    /\ UNCHANGED <<isInitialized, activeNotes, activeNoteCount, speakerActive, keyActive, inputVars>>
    /\ UNCHANGED recVars
    /\ UNCHANGED sessVars

\* history: the ticks since playRecording, counted up to ElapsedCap
ElapsedCap == Ticks(LateTimestamp) + Ticks(GraceDelay) + 2

Tick(t) == [t EXCEPT !.remaining = @ - 1]

\* time passes by one tick; no timer is overdue.  The clock is followed
\* while a recording is active, up to MaxClock ticks
Advance ==
    /\ \A t \in Pending(timers) : t.remaining > 0
    /\ isRecording => now < MaxClock * TickMs
    /\ now' = IF isRecording THEN now + TickMs ELSE now
    /\ timers' = BagMap(Tick, timers)
    /\ run' = IF isPlaying /\ run.elapsed < ElapsedCap
              THEN [run EXCEPT !.elapsed = @ + 1] ELSE run
    /\ lastOp' = Op("advance", "tick", 0, "no")
    /\ UNCHANGED <<isInitialized, activeNotes, activeNoteCount, speakerActive,
                   isRecording, isPlaying, recordedEvents, playbackTimeouts, keyActive, inputVars>>
    /\ UNCHANGED <<recordingStartTime, returned, saved, ui>>

\* ------------------------------------------------------- specifications
Init ==
    /\ isInitialized = FALSE
    /\ activeNotes = EmptyMap
    /\ activeNoteCount = 0
    /\ speakerActive = FALSE
    /\ isRecording = FALSE
    /\ isPlaying = FALSE
    /\ recordedEvents = <<>>
    /\ playbackTimeouts = <<>>
    /\ keyActive = {}
    /\ pressedKeys = {}
    /\ pointerStarted = {}
    /\ timers = EmptyBag
    /\ run = NoRun
    /\ lastOp = Op("construct", "ok", 0, "no")
    /\ now = 0
    /\ recordingStartTime = 0
    /\ returned = NoSession
    /\ saved = NoFile
    /\ ui = InitialControls

\* the engine under any sequence of calls, and its timers
NextEngine ==
    \/ \E ok \in BOOLEAN : Initialize(ok)
    \/ \E midi \in Notes, hostFails \in BOOLEAN : PlayNote(midi, DefaultVelocity, hostFails)
    \/ \E midi \in Notes, hostFails \in BOOLEAN : StopNote(midi, hostFails)
    \/ \E failing \in SUBSET (DOMAIN activeNotes) : StopAllNotes(failing)
    \/ \E t \in Pending(timers) : CleanupCallback(t)
    \/ \E t \in Pending(timers) : DisconnectCallback(t)
    \/ Advance

SpecEngine == Init /\ [][NextEngine]_vars

\* the engine and the lifecycle signals of the page
NextLifecycle ==
    \/ NextEngine
    \/ \E failing \in SUBSET (DOMAIN activeNotes) : HostHidden(failing)
    \/ \E failing \in SUBSET (DOMAIN activeNotes) : HostUnloading(failing)

SpecLifecycle == Init /\ [][NextLifecycle]_vars

\* the keyboard played on the engine, with a recording that may run; a key
\* goes up after it went down, a held key repeats its keydown
NextKeyboard ==
    \/ \E ok \in BOOLEAN : Initialize(ok)
    \/ \E key \in Keys \cup {UnmappedKey}, hostFails \in BOOLEAN : HandleKeyDown(key, hostFails)
    \/ \E key \in pressedKeys \cup {UnmappedKey}, hostFails \in BOOLEAN : HandleKeyUp(key, hostFails)
    \/ StartRecording(0)
    \/ \E t \in Pending(timers) : CleanupCallback(t)
    \/ Advance

SpecKeyboard == Init /\ [][NextKeyboard]_vars

\* the on-screen keys played on the engine
NextPointer ==
    \/ \E ok \in BOOLEAN : Initialize(ok)
    \/ \E i \in DOMAIN KeyElements, hostFails \in BOOLEAN :
          HandlePointerDown(KeyElements[i], hostFails)
    \/ \E i \in DOMAIN KeyElements, hostFails \in BOOLEAN :
          HandlePointerUp(KeyElements[i], hostFails)
    \/ \E t \in Pending(timers) : CleanupCallback(t)
    \/ Advance

SpecPointer == Init /\ [][NextPointer]_vars

\* the engine with timers that fire and time that passes
LiveEngine ==
    /\ SpecEngine
    /\ SF_vars(Advance)
    /\ WF_vars(\E t \in Pending(timers) : CleanupCallback(t))
    /\ WF_vars(\E t \in Pending(timers) : DisconnectCallback(t))

\* playback of loaded documents against the engine, with the host's
\* lifecycle signals
Next ==
    \/ \E ok \in BOOLEAN : Initialize(ok)
    \/ \E failing \in SUBSET (DOMAIN activeNotes) : HostHidden(failing)
    \/ \E data \in Docs : LoadRecording(data)
    \/ ClearRecording
    \/ PlayRecording
    \/ \E failing \in SUBSET (DOMAIN activeNotes) : StopPlayback(failing)
    \/ \E t \in Pending(timers), hostFails \in BOOLEAN : EventCallback(t, hostFails)
    \/ \E t \in Pending(timers), failing \in SUBSET (DOMAIN activeNotes) : GraceCallback(t, failing)
    \/ \E t \in Pending(timers) : CleanupCallback(t)
    \/ \E t \in Pending(timers) : DisconnectCallback(t)
    \/ Advance

Spec == Init /\ [][Next]_vars

\* a playback that is never stopped, with documents loaded and the session
\* cleared while it runs; the audio engine not started
NextCompletion ==
    \/ \E data \in Docs : LoadRecording(data)
    \/ ClearRecording
    \/ PlayRecording
    \/ \E t \in Pending(timers) : EventCallback(t, FALSE)
    \/ \E t \in Pending(timers) : GraceCallback(t, {})
    \/ Advance

\* timers that are due fire, and time passes
LiveCompletion ==
    /\ Init /\ [][NextCompletion]_vars
    /\ SF_vars(Advance)
    /\ WF_vars(\E t \in Pending(timers) : EventCallback(t, FALSE))
    /\ WF_vars(\E t \in Pending(timers) : GraceCallback(t, {}))

\* the note events the input handler reports: key down and key up
Reported ==
    {[type |-> "noteOn", velocity |-> DefaultVelocity],
     [type |-> "noteOff", velocity |-> 0]}

\* timestamps that are not negative and do not decrease along the sequence
NonDecreasing(events) ==
    /\ \A i \in DOMAIN events : events[i].timestamp >= 0
    /\ \A i \in 1..(Len(events) - 1) : events[i].timestamp <= events[i + 1].timestamp

\* the documents whose events, if any, are in time order
WellFormedDocs == {d \in Docs : NonDecreasing(d.events)}

\* the recorder under any sequence of calls, a monotone clock and loads of
\* well-formed or rejected documents
NextRecorder ==
    \/ \E t0 \in ClockReadings : StartRecording(t0)
    \/ StopRecording
    \/ \E r \in Reported : RecordEvent(r.type, 60, r.velocity)
    \/ \E data \in WellFormedDocs : LoadRecording(data)
    \/ ClearRecording
    \/ Advance

SpecRecorder == Init /\ [][NextRecorder]_vars

\* sessions recorded or loaded, saved to a file and loaded back
NextFile ==
    \/ \E t0 \in ClockReadings : StartRecording(t0)
    \/ \E r \in Reported : RecordEvent(r.type, 60, r.velocity)
    \/ \E data \in Docs : LoadRecording(data)
    \/ SaveRecording
    \/ LoadSaved
    \/ Advance

SpecFile == Init /\ [][NextFile]_vars

\* the files chosen through the page: at most one event, or malformed
ShortDocs == {d \in Docs : Len(d.events) <= 1}

\* the page's recording controls and playback, the audio engine not
\* started; recordings start at clock reading 0
NextControls ==
    \/ ClickRecord(0)
    \/ ClickStop
    \/ ClickPlay
    \/ CheckPlaybackEnd
    \/ \E data \in ShortDocs : LoadFile(data)
    \/ StartRecording(0)
    \/ \E t \in Pending(timers) : EventCallback(t, FALSE)
    \/ \E t \in Pending(timers) : GraceCallback(t, {})
    \/ Advance

SpecControls == Init /\ [][NextControls]_vars

\* hand-written documents of at most MaxEvents entries
ReplayDocs ==
    [kind : {"array"}, events : UNION {[1..n -> ReplayEntries] : n \in 0..MaxEvents}]

\* loading and replaying hand-written documents, the audio engine not
\* started
NextReplay ==
    \/ \E data \in ReplayDocs : LoadRecording(data)
    \/ PlayRecording
    \/ \E t \in Pending(timers) : EventCallback(t, FALSE)
    \/ \E t \in Pending(timers) : GraceCallback(t, {})
    \/ Advance

SpecReplay == Init /\ [][NextReplay]_vars

\* a session whose only event plays a note no key of Keys is mapped to
DuetDocs ==
    {[kind |-> "array",
      events |-> << [type |-> "noteOn", note |-> ReferenceNote, velocity |-> 8,
                     timestamp |-> 0] >>]}

\* the key q played while a loaded session is replayed on the started
\* engine
NextDuet ==
    \/ Initialize(TRUE)
    \/ \E data \in DuetDocs : LoadRecording(data)
    \/ PlayRecording
    \/ \E failing \in SUBSET (DOMAIN activeNotes) : StopPlayback(failing)
    \/ \E t \in Pending(timers) : EventCallback(t, FALSE)
    \/ \E t \in Pending(timers), failing \in SUBSET (DOMAIN activeNotes) :
          GraceCallback(t, failing)
    \/ HandleKeyDown("q", FALSE)
    \/ \E key \in pressedKeys : HandleKeyUp(key, FALSE)
    \/ \E t \in Pending(timers) : CleanupCallback(t)
    \/ \E t \in Pending(timers) : DisconnectCallback(t)
    \/ Advance

SpecDuet == Init /\ [][NextDuet]_vars

\* a playback on the started engine with the host's lifecycle signals
NextSignals ==
    \/ Initialize(TRUE)
    \/ \E data \in {d \in Docs : d.kind = "array" /\ d.events # << >>} : LoadRecording(data)
    \/ PlayRecording
    \/ \E failing \in SUBSET (DOMAIN activeNotes) : HostHidden(failing)
    \/ \E failing \in SUBSET (DOMAIN activeNotes) : HostUnloading(failing)
    \/ \E t \in Pending(timers) : EventCallback(t, FALSE)
    \/ \E t \in Pending(timers) : GraceCallback(t, {})
    \/ \E t \in Pending(timers) : CleanupCallback(t)
    \/ \E t \in Pending(timers) : DisconnectCallback(t)
    \/ Advance

SpecSignals == Init /\ [][NextSignals]_vars

\* the key q and direct calls for its note on an engine that may not have
\* been started, with a recording that may run
NextColdStart ==
    \/ \E ok \in BOOLEAN : Initialize(ok)
    \/ \E key \in {"q", UnmappedKey}, hostFails \in BOOLEAN : HandleKeyDown(key, hostFails)
    \/ \E key \in pressedKeys \cup {UnmappedKey}, hostFails \in BOOLEAN : HandleKeyUp(key, hostFails)
    \/ StartRecording(0)
    \/ \E hostFails \in BOOLEAN : PlayNote(keyToMidi["q"], DefaultVelocity, hostFails)
    \/ \E hostFails \in BOOLEAN : StopNote(keyToMidi["q"], hostFails)
    \/ \E failing \in SUBSET (DOMAIN activeNotes) : StopAllNotes(failing)
    \/ \E t \in Pending(timers) : CleanupCallback(t)
    \/ \E t \in Pending(timers) : DisconnectCallback(t)
    \/ Advance

SpecColdStart == Init /\ [][NextColdStart]_vars

\* a recording from the key q that runs while a session, loaded or just
\* recorded, is replayed; the audio engine not started
NextOverdub ==
    \/ \E data \in DuetDocs : LoadRecording(data)
    \/ StartRecording(0)
    \/ HandleKeyDown("q", FALSE)
    \/ \E key \in pressedKeys : HandleKeyUp(key, FALSE)
    \/ PlayRecording
    \/ \E t \in Pending(timers) : EventCallback(t, FALSE)
    \/ \E t \in Pending(timers) : GraceCallback(t, {})
    \/ Advance

SpecOverdub == Init /\ [][NextOverdub]_vars

\* ----------------------------------------------------------- properties
\* the voice map an holds the voice with oscillator osc for note midi
VoiceIs(an, midi, osc) == midi \in DOMAIN an /\ an[midi].osc = osc

\* C1: a note-on for a note that already has a voice is a no-op: the voice
\* map (and so the identity of the existing voice) and the active note count
\* are unchanged, and the note has exactly one voice afterwards.
C1_DuplicateNoteOnIsNoOp ==
    [][(lastOp'.op = "playNote" /\ lastOp'.n \in DOMAIN activeNotes)
        => /\ activeNotes' = activeNotes
           /\ activeNoteCount' = activeNoteCount
           /\ lastOp'.n \in DOMAIN activeNotes'
           /\ activeNoteCount' = Cardinality(DOMAIN activeNotes')]_vars

C1_Witness ==
    /\ lastOp.op = "playNote" /\ lastOp.result = "duplicate"
    /\ lastOp.n \in DOMAIN activeNotes
    /\ activeNoteCount = 1

\* C2: once the cleanup timer of a released voice has fired, that voice is
\* not in the voice map; and with timers that fire and time that passes,
\* every voice in its release phase is eventually taken out of the voice map
\* (its note has no entry at that moment).
C2_NoLeak ==
    /\ [][\A t \in Pending(timers) :
            (lastOp'.op = "cleanupCallback" /\ t.kind = "cleanup" /\ t.remaining = 0
             /\ timers' = timers (-) SetToBag({t}))
            => ~VoiceIs(activeNotes', t.note, t.osc)]_vars
    /\ \A midi \in Notes :
         (midi \in DOMAIN activeNotes /\ activeNotes[midi].env = "release")
            ~> (midi \notin DOMAIN activeNotes)

C2_Witness ==
    /\ lastOp.op = "cleanupCallback" /\ lastOp.result = "removed"
    /\ lastOp.n \notin DOMAIN activeNotes

\* C3: an emergency stop of an initialized engine completes whatever the
\* voices are doing and leaves the voice map empty and the count 0 at once.
C3_StopAllNotesClears ==
    (lastOp.op = "stopAllNotes" /\ isInitialized)
        => /\ lastOp.result = "stopped"
           /\ activeNotes = EmptyMap
           /\ activeNoteCount = 0

C3_Witness ==
    /\ lastOp.op = "stopAllNotes" /\ lastOp.n >= 1
    /\ \E t \in Pending(timers) : t.kind = "cleanup"
    /\ activeNoteCount = 0

\* C4: a cleanup timer changes the voice map only if the entry stored for
\* its note is the voice it was set for; a newer voice for the same note and
\* the count are left as they are.
C4_CleanupOnlyOwnVoice ==
    [][\A t \in Pending(timers) :
         (lastOp'.op = "cleanupCallback" /\ t.kind = "cleanup" /\ t.remaining = 0
          /\ timers' = timers (-) SetToBag({t}))
         => /\ (activeNotes' # activeNotes => VoiceIs(activeNotes, t.note, t.osc))
            /\ (t.note \in DOMAIN activeNotes /\ activeNotes[t.note].osc # t.osc)
                 => (activeNotes' = activeNotes /\ activeNoteCount' = activeNoteCount)]_vars

C4_Witness ==
    /\ lastOp.op = "cleanupCallback" /\ lastOp.result = "skipped"
    /\ lastOp.n \in DOMAIN activeNotes
    /\ activeNoteCount = 1

\* the pending event timers of a timer queue
EventTimers(tm) == {t \in Pending(tm) : t.kind = "event"}

\* the step is the callback of the event timer t
EventFires(t) ==
    /\ lastOp'.op = "eventCallback"
    /\ t \in EventTimers(timers) /\ t.remaining = 0
    /\ t.index = lastOp'.n
    /\ t \notin Pending(timers')

\* C5: a callback that was pending when stopAllNotes() or the playback
\* stop() returned changes neither the voice map, nor the voice count, nor
\* the playback-active flag when it fires later.
C5_CancellationTotal ==
    [][(lastOp'.stale # "no")
        => /\ activeNotes' = activeNotes
           /\ activeNoteCount' = activeNoteCount
           /\ isPlaying' = isPlaying]_vars

\* C6: a playback stop at any instant of a running playback leaves playback
\* inactive, no event callback pending and the engine cleared by
\* stopAllNotes; no event callback that was pending at a playback stop ever
\* runs, and none runs while playback is inactive.
C6_StopCancelsPending ==
    /\ [][(lastOp'.op = "stopPlayback" /\ isPlaying)
           => /\ ~isPlaying'
              /\ EventTimers(timers') = {}
              /\ keyActive' = keyActive
              /\ isInitialized => (activeNotes' = EmptyMap /\ activeNoteCount' = 0)]_vars
    /\ [][lastOp'.op = "eventCallback" => (lastOp'.stale # "playback" /\ isPlaying)]_vars

C6_Witness ==
    /\ lastOp.op = "stopPlayback" /\ lastOp.result = "stopped"
    /\ lastOp.n = 2
    /\ ~isPlaying /\ EventTimers(timers) = {}

\* C7: playRecording on a non-empty session with no playback running sets
\* exactly one callback per event, at a delay equal to the event's timestamp;
\* the callback runs at that time after the start, a noteOn event reaching
\* the engine as playNote(note, velocity) with the key shown active, a
\* noteOff event as stopNote(note) with the key shown inactive.
C7_PlaySchedulesAndReplays ==
    /\ [][(lastOp'.op = "playRecording" /\ lastOp'.result = "playing")
           => /\ Cardinality(EventTimers(timers')) = Len(recordedEvents)
              /\ \A i \in DOMAIN recordedEvents :
                   \E t \in EventTimers(timers') :
                      /\ t.index = i /\ t.event = recordedEvents[i]
                      /\ t.remaining = Ticks(recordedEvents[i].timestamp)
                      /\ CopiesIn(t, timers') = 1]_vars
    /\ [][\A t \in EventTimers(timers) : EventFires(t) =>
           LET e == t.event IN
           /\ run.elapsed = Ticks(e.timestamp)
           /\ e.type = "noteOn" =>
                /\ ElementsOf(e.note) \subseteq keyActive'
                /\ IF isInitialized /\ e.note \notin DOMAIN activeNotes
                   THEN \/ /\ e.note \in DOMAIN activeNotes'
                           /\ activeNotes'[e.note].velocity = e.velocity
                           /\ activeNotes'[e.note].env = "attackDecay"
                           /\ activeNoteCount' = activeNoteCount + 1
                        \/ /\ lastOp'.result = "error"
                           /\ activeNotes' = activeNotes
                   ELSE activeNotes' = activeNotes
           /\ e.type = "noteOff" =>
                /\ ElementsOf(e.note) \cap keyActive' = {}
                /\ IF isInitialized /\ e.note \in DOMAIN activeNotes
                   THEN \/ /\ e.note \in DOMAIN activeNotes'
                           /\ activeNotes'[e.note].env = "release"
                           /\ \E c \in Pending(timers') :
                                /\ c.kind = "cleanup" /\ c.note = e.note
                                /\ c.osc = activeNotes[e.note].osc
                                /\ c.remaining = Ticks(CleanupDelay)
                        \/ /\ lastOp'.result = "error"
                           /\ e.note \notin DOMAIN activeNotes'
                   ELSE activeNotes' = activeNotes]_vars

C7_Witness ==
    /\ lastOp.op = "eventCallback" /\ lastOp.result = "released"
    /\ run.elapsed = Ticks(LateTimestamp)
    /\ 60 \in DOMAIN activeNotes
    /\ activeNotes[60].velocity = 8 /\ activeNotes[60].env = "release"
    /\ ElementsOf(60) \cap keyActive = {}

\* C8: without a stop() call playback becomes inactive only when the event
\* with the greatest timestamp has fired and the grace delay has passed after
\* it, and the automatic stop cancels no event callback.
C8_GraceAfterLastEvent ==
    [][(lastOp'.op = "graceCallback" /\ isPlaying /\ ~isPlaying')
        => /\ run.elapsed >= Ticks(run.lastTimestamp) + Ticks(GraceDelay)
           /\ lastOp'.n = 0]_vars

\* C9: when an event callback runs, no callback of an event with a smaller
\* timestamp, or with the same timestamp and an earlier position in the
\* sequence, is still pending.
C9_TimestampOrder ==
    [][\A t \in EventTimers(timers) : EventFires(t) =>
         \A u \in EventTimers(timers) \ {t} :
            \/ u.event.timestamp > t.event.timestamp
            \/ (u.event.timestamp = t.event.timestamp /\ u.index > t.index)]_vars

C9_Witness ==
    /\ lastOp.op = "eventCallback" /\ lastOp.n = 2
    /\ \E u \in EventTimers(timers) : u.index = 1 /\ u.event.timestamp > 0 /\ u.remaining > 0

\* C10: playRecording while a playback is running, or with an empty event
\* log, changes nothing: no timer is set, the engine is untouched, the
\* playing flag and the pending callbacks stay as they are.
C10_PlayFailsSilently ==
    [][(lastOp'.op = "playRecording" /\ (isPlaying \/ Len(recordedEvents) = 0))
        => /\ lastOp'.result \in {"alreadyPlaying", "noRecording"}
           /\ UNCHANGED <<isInitialized, activeNotes, activeNoteCount, speakerActive,
                          isRecording, isPlaying, recordedEvents, playbackTimeouts,
                          keyActive, timers, run>>]_vars

C10_Witness ==
    /\ lastOp.op = "playRecording" /\ lastOp.result = "alreadyPlaying"
    /\ isPlaying /\ EventTimers(timers) # {}

\* C11: a recording started while a playback run is active ends the run:
\* playback is inactive and no event callback is pending once it has started.
C11_StartDestroysPlayback ==
    [][(lastOp'.op \in {"startRecording", "clickRecord"}
          /\ lastOp'.result = "true" /\ isPlaying)
        => (~isPlaying' /\ EventTimers(timers') = {})]_vars

\* C12: startRecording while recording returns the current recording state
\* and leaves the log, the start instant and the flag unchanged;
\* startRecording while not recording sets the flag, empties the log and
\* captures the clock reading as the start instant.
C12_StartNotReentrant ==
    [][(lastOp'.op = "startRecording")
        => IF isRecording
           THEN /\ lastOp'.result = "true"
                /\ UNCHANGED <<isRecording, recordedEvents, recordingStartTime>>
           ELSE /\ isRecording' /\ recordedEvents' = <<>>
                /\ recordingStartTime' = now']_vars

\* C13: a recordEvent call made while recording is not active leaves the
\* event log as it is.
C13_RecordOnlyWhileRecording ==
    [][(lastOp'.op = "recordEvent" /\ ~isRecording)
        => (lastOp'.result = "dropped" /\ recordedEvents' = recordedEvents)]_vars

C13_Witness ==
    /\ lastOp.op = "recordEvent" /\ lastOp.result = "dropped"
    /\ returned.valid /\ ~isRecording
    /\ Len(recordedEvents) = 1

\* C14: a recordEvent call made while recording appends exactly one event,
\* with the type, note and velocity of the input and the timestamp
\* rawTimestamp - recordingStartTime, and leaves the earlier events as they
\* are.
C14_RecordAppendsAdjusted ==
    [][(lastOp'.op = "recordEvent" /\ isRecording)
        => LET n == Len(recordedEvents) IN
           /\ Len(recordedEvents') = n + 1
           /\ SubSeq(recordedEvents', 1, n) = recordedEvents
           /\ recordedEvents'[n + 1] =
                [type |-> lastOp'.result, note |-> lastOp'.n,
                 velocity |-> IF lastOp'.result = "noteOn" THEN DefaultVelocity ELSE 0,
                 timestamp |-> now - recordingStartTime]]_vars

C14_Witness ==
    /\ lastOp.op = "recordEvent" /\ lastOp.result = "noteOff"
    /\ recordingStartTime > 0
    /\ Len(recordedEvents) = 2
    /\ recordedEvents[1].timestamp = 0
    /\ recordedEvents[2].timestamp = now - recordingStartTime
    /\ recordedEvents[2].timestamp > 0

C16_LogNonDecreasing == NonDecreasing(recordedEvents)

\* C17: the Stop control used while not recording changes no state and
\* raises no error.
C17_StopSilentWhenIdle ==
    [][(lastOp'.op = "clickStop" /\ ~isRecording)
        => /\ lastOp'.result # "TypeError"
           /\ UNCHANGED <<isRecording, recordedEvents, recordingStartTime,
                          returned, isPlaying, ui>>]_vars

\* C18: the text saveRecording wrote parses to a document whose events
\* array has the length of the saved session and the same type, note,
\* velocity and timestamp at every position.
C18_RoundTrip ==
    saved.valid =>
        LET data == JSONparse(saved.text) IN
        /\ validEvents(data)
        /\ Len(data.events) = Len(saved.session)
        /\ \A i \in DOMAIN saved.session :
             /\ data.events[i].type = saved.session[i].type
             /\ data.events[i].note = saved.session[i].note
             /\ data.events[i].velocity = saved.session[i].velocity
             /\ data.events[i].timestamp = saved.session[i].timestamp

C18_Witness ==
    /\ lastOp.op = "loadRecording" /\ lastOp.result = "resolved"
    /\ saved.valid /\ recordedEvents = saved.session
    /\ Len(recordedEvents) = 2
    /\ recordedEvents[1].velocity = DefaultVelocity
    /\ recordedEvents[2].timestamp > 0

\* C19: saveRecording of a non-empty session writes a document whose
\* eventCount is the number of events, whose duration is the timestamp of
\* the last event of the sequence and whose events are the session's in
\* order; with an empty session it writes nothing; the session is unchanged.
C19_SaveDocument ==
    [][(lastOp'.op = "saveRecording")
        => /\ recordedEvents' = recordedEvents
           /\ IF Len(recordedEvents) = 0
              THEN lastOp'.result = "null" /\ saved' = saved
              ELSE LET data == JSONparse(saved'.text)
                       n == Len(recordedEvents) IN
                   /\ saved'.valid
                   /\ data.eventCount = n
                   /\ data.duration = recordedEvents[n].timestamp
                   /\ data.events = recordedEvents]_vars

C19_Witness ==
    /\ lastOp.op = "saveRecording" /\ lastOp.result = "recordingData"
    /\ lastOp.n = 2 /\ saved.valid
    /\ saved.session = recordedEvents
    /\ recordedEvents[1].timestamp < recordedEvents[2].timestamp

\* C20: loading a document whose events field is missing or is not an array
\* is rejected and leaves the event log, the recording flag and the playback
\* state as they were.
C20_BadDocumentRejected ==
    [][(lastOp'.op = "loadRecording" /\ lastOp'.n = -1)
        => /\ lastOp'.result = "rejected"
           /\ UNCHANGED <<recordedEvents, isRecording, recordingStartTime, returned,
                          isPlaying, playbackTimeouts, timers, run>>]_vars

C20_Witness ==
    /\ lastOp.op = "loadRecording" /\ lastOp.result = "rejected"
    /\ isRecording /\ isPlaying
    /\ Len(recordedEvents) = 1 /\ EventTimers(timers) # {}

\* C21: whenever the load of a document ends with the status 'Failed to load
\* recording', the event log is the one from before the load, also for a
\* document whose events array is empty.
C21_FailedLoadKeepsSession ==
    [][(lastOp'.op = "loadRecording" /\ ui'.status = "Failed to load recording")
        => UNCHANGED recordedEvents]_vars

\* C22: a play() that is not refused raises no error and sets one timer per
\* entry of the session, whatever the entries are: an entry of an unknown
\* kind or a non-record entry is skipped when its turn comes.
C22_MalformedEventSkipped ==
    [][(lastOp'.op = "playRecording" /\ ~isPlaying /\ Len(recordedEvents) > 0)
        => /\ lastOp'.result = "playing"
           /\ Len(playbackTimeouts') = Len(recordedEvents)]_vars

\* C23: a noteOn(n) or noteOff(n) whose scheduling fails is caught: no entry
\* for n is in the voice map afterwards, the count has dropped by one exactly
\* if an entry was removed, the voices of the other notes are as before and
\* the failed call has set no timer.
C23_FailedCallCleansUp ==
    [][(lastOp'.op \in {"playNote", "stopNote"} /\ lastOp'.result = "error")
        => LET n == lastOp'.n IN
           /\ n \notin DOMAIN activeNotes'
           /\ \A m \in Notes \ {n} :
                /\ m \in DOMAIN activeNotes <=> m \in DOMAIN activeNotes'
                /\ m \in DOMAIN activeNotes => activeNotes'[m] = activeNotes[m]
           /\ activeNoteCount' = activeNoteCount - (IF n \in DOMAIN activeNotes THEN 1 ELSE 0)
           /\ activeNoteCount' = Cardinality(DOMAIN activeNotes')
           /\ timers' = timers]_vars

C23_Witness ==
    /\ lastOp.op = "stopNote" /\ lastOp.result = "error"
    /\ lastOp.n \notin DOMAIN activeNotes
    /\ \E m \in Notes \ {lastOp.n} : m \in DOMAIN activeNotes
    /\ activeNoteCount = 1
    /\ \E t \in Pending(timers) : t.kind = "cleanup" /\ t.note = lastOp.n

\* C24: init() on an initialized engine changes no state and creates no
\* output graph; a call that fails leaves the engine not initialized and
\* everything else as it was; a call on an engine that is not initialized
\* creates one output graph when the host allows it.
C24_InitIdempotent ==
    [][(lastOp'.op = "init")
        => /\ isInitialized
                => /\ lastOp'.result = "already" /\ lastOp'.n = 0
                   /\ UNCHANGED <<engVars, recVars, sessVars, keyActive>>
           /\ lastOp'.result = "error"
                => /\ ~isInitialized' /\ lastOp'.n = 0
                   /\ UNCHANGED <<engVars, recVars, sessVars, keyActive>>
           /\ lastOp'.result = "ok"
                => ~isInitialized /\ isInitialized' /\ lastOp'.n = 1]_vars

C24_Witness ==
    /\ lastOp.op = "init" /\ lastOp.result = "already"
    /\ isInitialized /\ activeNoteCount = 2
    /\ \E t \in Pending(timers) : t.kind = "cleanup"

\* C25: after the handler of the hidden signal or of the unload signal has
\* run, the voice map is empty, the voice count is 0 and the speaker icon
\* is off, as after stopAllNotes().
C25_LifecycleStopsAll ==
    [][(lastOp'.op \in {"hostHidden", "hostUnloading"})
        => /\ activeNotes' = EmptyMap
           /\ activeNoteCount' = 0
           /\ ~speakerActive'
           /\ isInitialized => lastOp'.result = "stopped"]_vars

C25_Witness ==
    /\ lastOp.op = "hostUnloading" /\ lastOp.result = "stopped" /\ lastOp.n >= 1
    /\ activeNotes = EmptyMap /\ activeNoteCount = 0
    /\ \E t \in Pending(timers) : t.kind = "cleanup"

\* the note has a voice that is not in its release phase
Sustained(voices, midi) ==
    midi \in DOMAIN voices /\ voices[midi].env # "release"

\* C26: while a key stays held and no emergency stop occurs, a sustained
\* voice of its note stays in the voice map and out of the release phase,
\* also when another key of the same note is pressed and released.
C26_HeldKeySustains ==
    [][\A key \in Keys :
         (/\ key \in pressedKeys /\ key \in pressedKeys'
          /\ Sustained(activeNotes, keyToMidi[key])
          /\ lastOp'.op \notin {"stopAllNotes", "hostHidden", "hostUnloading"})
         => Sustained(activeNotes', keyToMidi[key])]_vars

\* C27: a pointer-up or pointer-leave on an on-screen key whose pointer-down
\* started a voice issues the note-off of its note, also when several
\* elements carry the note.
C27_PointerUpStops ==
    [][\A i \in DOMAIN KeyElements :
         (/\ lastOp'.op = "pointerup" /\ lastOp'.key = KeyElements[i]
          /\ KeyElements[i] \in pointerStarted)
         => lastOp'.result \in {"released", "error", "absent"}]_vars

\* C28: a keydown for a key that is already held starts no voice, records
\* no event and leaves the pressed keys as they are.
C28_NoKeyRepeat ==
    [][\A key \in Keys :
         (lastOp'.op = "keydown" /\ lastOp'.key = key /\ key \in pressedKeys)
         => /\ UNCHANGED <<activeNotes, activeNoteCount, timers>>
            /\ UNCHANGED <<recordedEvents, returned, pressedKeys, keyActive>>]_vars

C28_Witness ==
    /\ lastOp.op = "keydown" /\ lastOp.result = "repeat"
    /\ lastOp.key \in pressedKeys
    /\ isRecording /\ Len(recordedEvents) = 1
    /\ Sustained(activeNotes, lastOp.n)

\* the frequency of each note against two reference values:
\* exactly 440 Hz, and 261.63 Hz to the hundredth
FrequencyOf ==
    [n \in Notes |->
        LET f == midiToFrequency(n) IN
        [concertPitch |-> AtLeast(f, 440000) /\ AtMost(f, 440000),
         middleC |-> AtLeast(f, 261625) /\ AtMost(f, 261635)]]

\* C29: the oscillator of every voice runs at 440 * 2^((note - 69) / 12) Hz:
\* exactly 440 Hz for note 69, 261.63 Hz to the hundredth for note 60.
C29_Frequency ==
    \A n \in DOMAIN activeNotes :
        /\ activeNotes[n].frequency = [hz |-> 440, twelfths |-> n - 69]
        /\ activeNotes[n].frequency = midiToFrequency(n)
        /\ n = 69 => FrequencyOf[n].concertPitch
        /\ n = 60 => FrequencyOf[n].middleC

C29_Witness ==
    /\ DOMAIN activeNotes = {60, 69}
    /\ activeNoteCount = 2
    /\ \A n \in {60, 69} : Sustained(activeNotes, n)

\* C30: a playback that is never stopped by a stop() call ends: the
\* playback flag is eventually false, whatever is loaded or cleared while
\* the playback runs.
C30_PlaybackCompletes == isPlaying ~> ~isPlaying

\* the end of the last change scheduled on a gain, in ms after the call
RampEnd(gain) == gain[Len(gain)].at

\* the disconnect timers a stopAllNotes call has just set
NewDisconnects(tm) ==
    {t \in Pending(tm) : t.kind = "disconnect" /\ t.remaining = Ticks(DisconnectDelay)}

\* C31: two-phase cleanup: the release ramp of noteOff lasts between 100 and
\* 300 ms, the fade of stopAllNotes at most 100 ms, and in both the ramp
\* ends no later than the oscillator stops, which is no later than the
\* deferred removal or disconnect.
C31_TwoPhaseCleanup ==
    [][/\ (lastOp'.op = "stopNote" /\ lastOp'.result = "released")
            => LET v == activeNotes'[lastOp'.n] IN
               /\ RampEnd(v.gain) \in 100..300
               /\ RampEnd(v.gain) <= v.oscStop
               /\ v.oscStop <= CleanupDelay
               /\ \E t \in Pending(timers') :
                     /\ t.kind = "cleanup" /\ t.osc = v.osc
                     /\ t.remaining = Ticks(CleanupDelay)
                     /\ timers'[t] > (IF t \in Pending(timers) THEN timers[t] ELSE 0)
       /\ (lastOp'.op = "stopAllNotes" /\ lastOp'.result = "stopped")
            => \A t \in NewDisconnects(timers') :
                     /\ RampEnd(t.node.gain) <= 100
                     /\ RampEnd(t.node.gain) <= t.node.oscStop
                     /\ t.node.oscStop <= DisconnectDelay]_vars

C31_Witness ==
    /\ lastOp.op = "stopNote" /\ lastOp.result = "released"
    /\ activeNotes[lastOp.n].oscStop = OscStopDelay
    /\ \E t \in Pending(timers) : t.kind = "disconnect" /\ t.node.oscStop = FadeStopDelay

\* C32: noteOff and stopAllNotes cancel what was scheduled on the gain of a
\* voice and start the release from the level read at that instant: after
\* either, the only changes scheduled are the hold at that level and the
\* ramp to the floor of 0.001, also for a noteOff on a voice in its attack or
\* decay and for a noteOff repeated during the release.
C32_ReleaseReplacesEnvelope ==
    [][/\ (lastOp'.op = "stopNote" /\ lastOp'.result = "released")
            => activeNotes'[lastOp'.n].gain
                 = << [call |-> "setValueAtTime", value |-> currentGain, at |-> 0],
                      [call |-> "exponentialRampToValueAtTime",
                       value |-> [read |-> FALSE, thousandths |-> 1], at |-> 100] >>
       /\ (lastOp'.op = "stopAllNotes" /\ lastOp'.result = "stopped")
            => \A t \in NewDisconnects(timers') :
                  t.node.gain
                    = << [call |-> "setValueAtTime", value |-> currentGain, at |-> 0],
                         [call |-> "exponentialRampToValueAtTime",
                          value |-> [read |-> FALSE, thousandths |-> 1], at |-> 50] >>]_vars

\* a noteOff repeated during the release: two cleanup timers for one voice
C32_Witness ==
    /\ lastOp.op = "stopNote" /\ lastOp.result = "released"
    /\ LET v == activeNotes[lastOp.n] IN
       /\ Len(v.gain) = 2
       /\ SumCopies(timers, {t \in Pending(timers) : t.kind = "cleanup" /\ t.osc = v.osc}) = 2

\* C33: a noteOn that creates a voice schedules on its gain: 0 at note-on, a
\* linear ramp to the velocity ending 10 ms after note-on, an exponential
\* ramp to 0.7 x velocity ending 300 ms after note-on, and nothing further
\* until the release; no stop of the oscillator is scheduled.
C33_AttackDecayEnvelope ==
    \A n \in DOMAIN activeNotes :
        LET v == activeNotes[n] IN
        v.env = "attackDecay"
          => /\ v.gain
                  = << [call |-> "setValueAtTime",
                        value |-> [read |-> FALSE, thousandths |-> 0], at |-> 0],
                       [call |-> "linearRampToValueAtTime",
                        value |-> [read |-> FALSE, thousandths |-> 100 * v.velocity],
                        at |-> 10],
                       [call |-> "exponentialRampToValueAtTime",
                        value |-> [read |-> FALSE, thousandths |-> 70 * v.velocity],
                        at |-> 300] >>
             /\ v.oscStop = 0

C33_Witness ==
    /\ lastOp.op = "eventCallback" /\ lastOp.result = "started"
    /\ \E n \in DOMAIN activeNotes :
          /\ activeNotes[n].env = "attackDecay"
          /\ activeNotes[n].velocity # DefaultVelocity
          /\ Len(activeNotes[n].gain) = 3

\* C34: in every reachable state the active note count equals the number of
\* entries of the voice map and is not negative, and the sound indicator is
\* active exactly when the count is greater than 0, under every interleaving
\* of noteOn, noteOff (repeated, failing), stopAllNotes, the lifecycle
\* signals and the cleanup timers.
C34_CountMatchesMap ==
    /\ activeNoteCount = Cardinality(DOMAIN activeNotes)
    /\ activeNoteCount >= 0
    /\ speakerActive <=> (activeNoteCount > 0)

\* the cleanup timer of a repeated noteOff fires after the voice was removed
\* and the note was played again
C34_Witness ==
    /\ lastOp.op = "cleanupCallback" /\ lastOp.result = "skipped"
    /\ lastOp.n \in DOMAIN activeNotes
    /\ activeNoteCount = 1
    /\ speakerActive

\* C35: in every reachable state, no event callback is pending while
\* playback is inactive, and the event callbacks that are pending all belong
\* to one playback run, the one whose timeouts the recorder holds: one
\* callback per timeout of its list.
C35_OneRunPending ==
    /\ ~isPlaying => EventTimers(timers) = {}
    /\ \A t \in EventTimers(timers) :
          /\ timers[t] = 1
          /\ \E i \in DOMAIN playbackTimeouts : playbackTimeouts[i] = t.id
    /\ \A t, u \in EventTimers(timers) : t.id = u.id => t = u

\* a second run started after a stop, its callbacks pending together with
\* the callback the first run left behind for its automatic stop
C35_Witness ==
    /\ isPlaying
    /\ lastOp.op = "playRecording" /\ lastOp.result = "playing"
    /\ EventTimers(timers) # {}
    /\ \E t \in Pending(timers) : t.kind = "grace"

\* the step is the callback of a cleanup timer set for the voice the map
\* holds for note midi
CleanupFiresFor(midi) ==
    /\ lastOp'.op = "cleanupCallback" /\ lastOp'.n = midi
    /\ midi \in DOMAIN activeNotes
    /\ \E t \in Pending(timers) :
          /\ t.kind = "cleanup" /\ t.note = midi /\ t.osc = activeNotes[midi].osc
          /\ timers' = timers (-) SetToBag({t})

\* C36: a noteOn for a note whose voice is being released (noteOff called,
\* cleanup timer not yet fired) is suppressed: no voice is created, the
\* releasing voice and its cleanup timer stay; when the cleanup timer fires
\* next, the voice is removed and the note has no voice, although the last
\* call for the note was a noteOn.
C36_NoteOnDuringReleaseLost ==
    [][/\ (lastOp'.op = "playNote" /\ lastOp'.n \in DOMAIN activeNotes
             /\ activeNotes[lastOp'.n].env = "release")
            => /\ lastOp'.result = "duplicate"
               /\ activeNotes' = activeNotes
               /\ activeNoteCount' = activeNoteCount
               /\ timers' = timers
       /\ (lastOp.op = "playNote" /\ lastOp.result = "duplicate"
             /\ CleanupFiresFor(lastOp.n))
            => /\ lastOp'.result = "removed"
               /\ lastOp.n \notin DOMAIN activeNotes'
               /\ activeNoteCount' = activeNoteCount - 1]_vars

\* the noteOn was suppressed and the cleanup timer of the voice is due
C36_Witness ==
    /\ lastOp.op = "playNote" /\ lastOp.result = "duplicate"
    /\ lastOp.n \in DOMAIN activeNotes
    /\ activeNotes[lastOp.n].env = "release"
    /\ \E t \in Pending(timers) :
          /\ t.kind = "cleanup" /\ t.note = lastOp.n /\ t.remaining = 0
          /\ t.osc = activeNotes[lastOp.n].osc

\* C37: when a running playback ends, by a stop request or by the automatic
\* stop after the grace delay, every voice of the engine is removed and the
\* count is 0 directly afterwards, also the voices started from the
\* keyboard during the playback whose keys are still held.
C37_PlaybackEndClearsAll ==
    [][(lastOp'.op \in {"stopPlayback", "graceCallback"} /\ isPlaying)
        => /\ lastOp'.result = "stopped"
           /\ ~isPlaying'
           /\ activeNotes' = EmptyMap
           /\ activeNoteCount' = 0
           /\ pressedKeys' = pressedKeys]_vars

\* the automatic stop has faded two voices, the replayed one and the one of
\* a key that is still held
C37_Witness ==
    /\ lastOp.op = "graceCallback" /\ lastOp.result = "stopped"
    /\ pressedKeys # {}
    /\ activeNotes = EmptyMap /\ activeNoteCount = 0
    /\ SumCopies(timers, NewDisconnects(timers)) = 2

\* the pending event callbacks of tm, whatever the history says of them
ReplayPending(tm) ==
    LET Plain(t) == [t EXCEPT !.stale = "no"]
    IN  BagMap(Plain, BagFilter(LAMBDA t : t.kind = "event", tm))

\* C38: the hidden and the unload signal leave the playback state as it
\* was: the playback flag, the list of timeouts, the session and the pending
\* event callbacks; a noteOn callback of the running playback that was
\* pending at the signal creates its voice afterwards.
C38_SignalKeepsPlayback ==
    [][(lastOp'.op \in {"hostHidden", "hostUnloading"})
        => /\ isPlaying' = isPlaying
           /\ playbackTimeouts' = playbackTimeouts
           /\ recordedEvents' = recordedEvents
           /\ run' = run
           /\ ReplayPending(timers') = ReplayPending(timers)]_vars

\* a noteOn callback that was pending at a signal has created a voice
C38_Witness ==
    /\ lastOp.op = "eventCallback" /\ lastOp.result = "started"
    /\ lastOp.stale = "engine"
    /\ isPlaying
    /\ activeNotes # EmptyMap

C40_ReplayNotRecorded ==
    /\ [][(lastOp'.op \in {"eventCallback", "graceCallback", "playRecording"})
           => /\ recordedEvents' = recordedEvents
              /\ isRecording' = isRecording]_vars
    /\ [][(Len(recordedEvents') > Len(recordedEvents) /\ lastOp'.op # "loadRecording")
           => /\ lastOp'.op \in {"keydown", "keyup"}
              /\ isRecording
              /\ \E e \in [type : {"noteOn", "noteOff"}, note : {keyToMidi[lastOp'.key]},
                           velocity : {0, 5},
                           timestamp : {now - recordingStartTime}] :
                    /\ recordedEvents' = Append(recordedEvents, e)
                    /\ e.type = "noteOn" <=> lastOp'.op = "keydown"]_vars

\* a replayed event has reached the engine while a recording is active
C40_Witness ==
    /\ lastOp.op = "eventCallback"
    /\ isRecording /\ isPlaying
    /\ \E t \in EventTimers(timers) : TRUE

====
